---- MODULE Spec2Model ----
(***************************************************************************)
(* LexiLens (dislexic-guard): the local phonetic correction engine         *)
(* (analyzeText, extractWords, preserveCase) and the merge of local and AI *)
(* suggestions (mergeSuggestions).                                         *)
(*                                                                         *)
(* A JavaScript string is modelled as a sequence of UTF-16 code units,     *)
(* each code unit being a one-character TLA+ string ("t", "'", " ").  The  *)
(* one non-ASCII letter of the input alphabet is written "U+00E9" (e with  *)
(* acute accent) and its upper-case form "U+00C9".  Offsets are 0-based    *)
(* with an exclusive end, as in the source; TLA+ sequences are 1-based.    *)
(* Confidences are hundredths: 0.95 is 95.                                 *)
(***************************************************************************)
EXTENDS Integers, Sequences, FiniteSets, TLC

VARIABLES
  text,              \* the string handed to extractWords / analyzeText
  ignoreList,        \* the caller's ignore list (lower-case words)
  done,              \* the calls that have returned
  words,             \* what extractWords(text) returned
  suggestions,       \* what analyzeText(text) returned
  localSuggestions,  \* first argument of mergeSuggestions
  aiSuggestions,     \* second argument of mergeSuggestions
  merged,            \* what mergeSuggestions of utils/local-ai.ts returned
  mergedContent,     \* what mergeSuggestions of the content script returned
  fieldText,         \* the text of each flow's field
  returned,          \* the calls that returned, in order: flow, text, result
  instantWord,       \* the argument of getInstantCorrection
  instantCorrection, \* what getInstantCorrection returned, once it has
  aiText,            \* the text handed to analyzeWithAI
  aiBackend,         \* config.backend
  browserEngine,     \* the WebLLM engine: "null" until a model is loaded
  aiState,           \* idle, awaiting (the query is in flight), resolved, rejected
  aiReply,           \* what the backend did with the query
  aiResult,          \* the list the promise of analyzeWithAI resolved to
  script,            \* which content script runs: "statusBar" (part_002) or "highlights" (App.tsx)
  aiReady,           \* an AI backend is initialised
  focused,           \* currentFocusedElement is the field and has the focus
  elementText,       \* getElementText(element): the text of the field
  pendingAnalyze,    \* the arguments of the pending debouncedAnalyze call, if any
  analysisVersion,   \* analysisVersion
  lastAnalyzedText,  \* lastAnalyzedText
  inFlight,          \* the performAnalysis invocations awaiting analyzeWithAI
  currentSuggestions, \* currentSuggestions
  shown,             \* the suggestions on display: status bar or highlights
  currentSentences,  \* currentSentences
  currentSentenceIndex, \* currentSentenceIndex
  modalOpen,         \* the review modal is visible
  validatedHomophones, \* settings.ai.validatedHomophones
  published,         \* the analysis last published, if any
  completions,       \* the invocations that completed, in order, and how
  wrapper,           \* debounce or debounceWithCancel
  delay,             \* the delay the wrapper was created with
  now,               \* the host's clock
  timers,            \* the host's pending timers: id, due time, captured args
  timeoutId,         \* the closure's timeoutId, 0 for null
  nextTimerId,       \* the id the next setTimeout returns
  history,           \* calls, cancels and executions of fn, in order
  dictionaries,      \* settings.ai: customTerms, verifiedEntities, validatedHomophones
  csvFile,           \* the text of the exported file, empty while none was exported
  exportedFrom,      \* the dictionaries the file was exported from
  roundTrip,         \* the import of the file: the dictionaries before and after it
  pendingChanges,    \* the accepted changes queued for applyAllChanges
  targetElement,     \* the element stored by openReviewModal: field or null
  acceptTimers,      \* the 300 ms timers of Accept clicks, oldest first
  reanalysis,        \* the 100 ms timer of applyAllChanges: the text it holds
  rendered,          \* the sentence the modal body displays, as rendered
  acceptedChanges,   \* history: the Accept clicks
  appliedChanges,    \* history: the changes applyAllChanges has applied
  lastApply,         \* history: the last run of applyAllChanges
  clicks,            \* the number of clicks in the modal so far
  popupSettings,     \* the popup's React state settings, empty for null
  storedSettings,    \* browser.storage.local: lexilens_settings
  updateCalls,       \* the calls of updateSettings in flight
  issued,            \* the number of calls of updateSettings so far
  lastSelect,        \* history: the model chosen by the last change of the select, none after another change of ai
  fuzzyText,         \* the argument text
  fuzzyWord,         \* the argument word
  hintStart,         \* the argument hintStart
  fuzzyCalls,        \* the calls made: 0, 1 or 2
  fuzzyResult,       \* what the first call returned, empty for null
  fuzzyAgain         \* what the second call returned, empty for null

vars == <<text, ignoreList, done, words, suggestions,
          localSuggestions, aiSuggestions, merged, mergedContent,
          fieldText, returned,
          instantWord, instantCorrection,
          aiText, aiBackend, browserEngine, aiState, aiReply, aiResult,
          script, aiReady, focused, elementText, pendingAnalyze, analysisVersion, lastAnalyzedText, inFlight, currentSuggestions, shown, currentSentences, currentSentenceIndex, modalOpen, validatedHomophones, published, completions,
          wrapper, delay, now, timers, timeoutId, nextTimerId, history,
          dictionaries, csvFile, exportedFrom, roundTrip,
          pendingChanges, targetElement, acceptTimers, reanalysis, rendered, acceptedChanges, appliedChanges, lastApply, clicks,
          popupSettings, storedSettings, updateCalls, issued, lastSelect,
          fuzzyText, fuzzyWord, hintStart, fuzzyCalls, fuzzyResult, fuzzyAgain>>

\* the state of one call of extractWords / analyzeText / mergeSuggestions
textVars == <<text, ignoreList, done, words, suggestions,
              localSuggestions, aiSuggestions, merged, mergedContent>>

\* no call made: nothing analysed, nothing merged
TextIdle ==
  /\ text = <<>>
  /\ ignoreList = {}
  /\ done = {}
  /\ words = <<>>
  /\ suggestions = <<>>
  /\ localSuggestions = <<>>
  /\ aiSuggestions = <<>>
  /\ merged = <<>>
  /\ mergedContent = <<>>

\* the logical flows (focused fields) that call analyzeText, and what their calls returned
flowVars == <<fieldText, returned>>

\* no field exists, no call has returned
FlowIdle ==
  /\ fieldText = <<>>
  /\ returned = <<>>

\* one call of getInstantCorrection
wordVars == <<instantWord, instantCorrection>>

\* getInstantCorrection not called
WordIdle ==
  /\ instantWord = <<>>
  /\ instantCorrection = <<>>

\* one call of analyzeWithAI
aiVars == <<aiText, aiBackend, browserEngine, aiState, aiReply, aiResult>>

\* the AI engine module loaded, analyzeWithAI not called
AiIdle ==
  /\ aiText = <<>>
  /\ aiBackend = "browser"
  /\ browserEngine = "null"
  /\ aiState = "idle"
  /\ aiReply = <<>>
  /\ aiResult = <<>>

\* the content script: the focused field, the debounced analysis and the review modal
csVars == <<script, aiReady, focused, elementText, pendingAnalyze, analysisVersion, lastAnalyzedText, inFlight, currentSuggestions, shown, currentSentences, currentSentenceIndex, modalOpen, validatedHomophones, published, completions>>

\* the content script as loaded: no field focused, nothing analysed
CsIdle ==
  /\ script = "statusBar"
  /\ aiReady = FALSE
  /\ focused = FALSE
  /\ elementText = <<>>
  /\ pendingAnalyze = <<>>
  /\ analysisVersion = 0
  /\ lastAnalyzedText = <<>>
  /\ inFlight = {}
  /\ currentSuggestions = <<>>
  /\ shown = <<>>
  /\ currentSentences = <<>>
  /\ currentSentenceIndex = 0
  /\ modalOpen = FALSE
  /\ validatedHomophones = <<>>
  /\ published = <<>>
  /\ completions = <<>>

\* one debounced function and the host's timers
dbVars == <<wrapper, delay, now, timers, timeoutId, nextTimerId, history>>

\* no debounced function in use
DbIdle ==
  /\ wrapper = "debounce"
  /\ delay = 0
  /\ now = 0
  /\ timers = {}
  /\ timeoutId = 0
  /\ nextTimerId = 1
  /\ history = <<>>

\* the dictionaries of the options page and an exported CSV file
csvVars == <<dictionaries, csvFile, exportedFrom, roundTrip>>

\* the options page not in use
CsvIdle ==
  /\ dictionaries = [customTerms |-> <<>>, verifiedEntities |-> <<>>, validatedHomophones |-> <<>>]
  /\ csvFile = <<>>
  /\ exportedFrom = [customTerms |-> <<>>, verifiedEntities |-> <<>>, validatedHomophones |-> <<>>]
  /\ roundTrip = <<>>

\* the review modal of the status-bar script
rvVars == <<pendingChanges, targetElement, acceptTimers, reanalysis, rendered, acceptedChanges, appliedChanges, lastApply, clicks>>

\* the review modal never opened
RvIdle ==
  /\ pendingChanges = <<>>
  /\ targetElement = "null"
  /\ acceptTimers = <<>>
  /\ reanalysis = <<>>
  /\ rendered = <<>>
  /\ acceptedChanges = <<>>
  /\ appliedChanges = <<>>
  /\ lastApply = <<>>
  /\ clicks = 0

\* the options popup: its settings state, the storage, the updates in flight
popVars == <<popupSettings, storedSettings, updateCalls, issued, lastSelect>>

\* the popup not opened
PopIdle ==
  /\ popupSettings = <<>>
  /\ storedSettings = <<>>
  /\ updateCalls = {}
  /\ issued = 0
  /\ lastSelect = "none"

\* calls of findWordPositionFuzzy: the arguments, what the call returned, what the call with the returned start as hint returned
fzVars == <<fuzzyText, fuzzyWord, hintStart, fuzzyCalls, fuzzyResult, fuzzyAgain>>

\* findWordPositionFuzzy not called
FzIdle ==
  /\ fuzzyText = <<>>
  /\ fuzzyWord = <<>>
  /\ hintStart = 0
  /\ fuzzyCalls = 0
  /\ fuzzyResult = <<>>
  /\ fuzzyAgain = <<>>

---------------------------------------------------------------------------
(* Code units and String.prototype methods                                 *)

LowerLetters ==
  <<"a", "b", "c", "d", "e", "f", "g", "h", "i", "j", "k", "l", "m",
    "n", "o", "p", "q", "r", "s", "t", "u", "v", "w", "x", "y", "z">>

UpperLetters ==
  <<"A", "B", "C", "D", "E", "F", "G", "H", "I", "J", "K", "L", "M",
    "N", "O", "P", "Q", "R", "S", "T", "U", "V", "W", "X", "Y", "Z">>

Range(s) == {s[i] : i \in 1..Len(s)}

AsciiLower == Range(LowerLetters)
AsciiUpper == Range(UpperLetters)

\* the character class [a-zA-Z] of the word regex
IsAsciiLetter(c) == c \in AsciiLower \cup AsciiUpper

\* String.prototype.toLowerCase / toUpperCase on one code unit
toLowerCaseChar(c) ==
  IF c \in AsciiUpper
  THEN LowerLetters[CHOOSE i \in 1..Len(UpperLetters) : UpperLetters[i] = c]
  ELSE IF c = "U+00C9" THEN "U+00E9" ELSE c

toUpperCaseChar(c) ==
  IF c \in AsciiLower
  THEN UpperLetters[CHOOSE i \in 1..Len(LowerLetters) : LowerLetters[i] = c]
  ELSE IF c = "U+00E9" THEN "U+00C9" ELSE c

toLowerCase(s) == [i \in 1..Len(s) |-> toLowerCaseChar(s[i])]
toUpperCase(s) == [i \in 1..Len(s) |-> toUpperCaseChar(s[i])]

Min(a, b) == IF a < b THEN a ELSE b
Max(a, b) == IF a > b THEN a ELSE b

\* String.prototype.substring(start, end): both clamped to [0, length],
\* swapped when start > end
substring(s, start, end) ==
  LET a == Max(0, Min(start, Len(s)))
      b == Max(0, Min(end, Len(s)))
  IN  SubSeq(s, Min(a, b) + 1, Max(a, b))

\* String.prototype.slice(start) for start >= 0
slice(s, start) == SubSeq(s, Min(start, Len(s)) + 1, Len(s))

\* String.prototype.charAt(i): the empty string out of range
charAt(s, i) == IF i >= 0 /\ i < Len(s) THEN <<s[i + 1]>> ELSE <<>>

---------------------------------------------------------------------------
(* Lexicon tables: the array literals handed to new Map(...), in source    *)
(* order.  Glyphs outside ASCII (emoji, arrows) are left out of the tips.  *)

DYSLEXIA_ERRORS ==
  <<
    [key |-> <<"y", "e", "s", "t", "u", "r", "d", "a", "y">>, correction |-> <<"y", "e", "s", "t", "e", "r", "d", "a", "y">>, tip |-> "Sound it out: YES-ter-day"],
    [key |-> <<"y", "e", "s", "t", "e", "r", "d", "y", "a">>, correction |-> <<"y", "e", "s", "t", "e", "r", "d", "a", "y">>, tip |-> "Sound it out: YES-ter-day"],
    [key |-> <<"v", "a", "r", "y">>, correction |-> <<"v", "e", "r", "y">>, tip |-> "\"Very\" has an \"e\" - think \"vEry good\""],
    [key |-> <<"s", "u", "n", "y">>, correction |-> <<"s", "u", "n", "n", "y">>, tip |-> "Double \"n\" for sunny - suNNy"],
    [key |-> <<"s", "u", "n", "n", "n", "y">>, correction |-> <<"s", "u", "n", "n", "y">>, tip |-> "Only two \"n\"s - suNNy"],
    [key |-> <<"d", "e", "s", "i", "d", "e", "d">>, correction |-> <<"d", "e", "c", "i", "d", "e", "d">>, tip |-> "\"Decide\" has a \"c\" - deCided"],
    [key |-> <<"d", "e", "c", "i", "d", "i", "d">>, correction |-> <<"d", "e", "c", "i", "d", "e", "d">>, tip |-> "Ends in \"-ed\" not \"-id\""],
    [key |-> <<"t", "i", "r", "e", "e", "d">>, correction |-> <<"t", "i", "r", "e", "d">>, tip |-> "Only one \"e\" at the end - tirEd"],
    [key |-> <<"t", "i", "e", "r", "d">>, correction |-> <<"t", "i", "r", "e", "d">>, tip |-> "The \"i\" comes first - tIred"],
    [key |-> <<"q", "w", "i", "c", "k", "l", "y">>, correction |-> <<"q", "u", "i", "c", "k", "l", "y">>, tip |-> "\"Quick\" starts with \"qu\" not \"qw\""],
    [key |-> <<"q", "u", "i", "k", "l", "y">>, correction |-> <<"q", "u", "i", "c", "k", "l", "y">>, tip |-> "Don't forget the \"c\" - quiCKly"],
    [key |-> <<"q", "u", "i", "c", "k", "l", "e", "y">>, correction |-> <<"q", "u", "i", "c", "k", "l", "y">>, tip |-> "Ends in \"-ly\" not \"-ley\""],
    [key |-> <<"b", "r", "o", "t", "e">>, correction |-> <<"b", "r", "o", "u", "g", "h", "t">>, tip |-> "\"Brought\" has \"ough\" - brOUGHt"],
    [key |-> <<"b", "r", "o", "t">>, correction |-> <<"b", "r", "o", "u", "g", "h", "t">>, tip |-> "\"Brought\" has \"ough\" - brOUGHt"],
    [key |-> <<"b", "r", "o", "u", "g", "h">>, correction |-> <<"b", "r", "o", "u", "g", "h", "t">>, tip |-> "Don't forget the \"t\" - broughT"],
    [key |-> <<"b", "r", "i", "d">>, correction |-> <<"b", "i", "r", "d">>, tip |-> "Letters swapped! b-i-r-d"],
    [key |-> <<"b", "i", "d", "r">>, correction |-> <<"b", "i", "r", "d">>, tip |-> "Letters swapped! b-i-r-d"],
    [key |-> <<"s", "o", "w", "n", "g">>, correction |-> <<"s", "o", "n", "g">>, tip |-> "No \"w\" in song - just sONg"],
    [key |-> <<"s", "o", "n", "g", "e">>, correction |-> <<"s", "o", "n", "g">>, tip |-> "No \"e\" at the end - song"],
    [key |-> <<"w", "r", "i", "g", "h", "t">>, correction |-> <<"w", "r", "i", "t", "e">>, tip |-> "\"Write\" has no \"gh\" - wrIte (Wright is a name!)"],
    [key |-> <<"r", "i", "t", "e">>, correction |-> <<"w", "r", "i", "t", "e">>, tip |-> "Don't forget the \"w\" - Write"],
    [key |-> <<"w", "r", "i", "e", "t">>, correction |-> <<"w", "r", "i", "t", "e">>, tip |-> "Letters swapped! w-r-i-t-e"],
    [key |-> <<"c", "o", "r", "e", "c", "t", "l", "y">>, correction |-> <<"c", "o", "r", "r", "e", "c", "t", "l", "y">>, tip |-> "Double \"r\" - coRRectly"],
    [key |-> <<"c", "o", "r", "r", "e", "c", "t", "l", "e", "y">>, correction |-> <<"c", "o", "r", "r", "e", "c", "t", "l", "y">>, tip |-> "Ends in \"-ly\" not \"-ley\""],
    [key |-> <<"d", "a", "n", "c", "n", "g">>, correction |-> <<"d", "a", "n", "c", "i", "n", "g">>, tip |-> "Don't forget the \"i\" - dancIng"],
    [key |-> <<"d", "a", "n", "s", "i", "n", "g">>, correction |-> <<"d", "a", "n", "c", "i", "n", "g">>, tip |-> "\"Dance\" has a \"c\" - danCing"],
    [key |-> <<"t", "r", "i", "k", "y">>, correction |-> <<"t", "r", "i", "c", "k", "y">>, tip |-> "\"Trick\" has \"ck\" - triCKy"],
    [key |-> <<"t", "r", "i", "k", "c", "y">>, correction |-> <<"t", "r", "i", "c", "k", "y">>, tip |-> "The \"c\" and \"k\" together - triCKy"],
    [key |-> <<"s", "t", "o", "e", "r", "i", "e", "s">>, correction |-> <<"s", "t", "o", "r", "i", "e", "s">>, tip |-> "No \"e\" - stOries (story stories)"],
    [key |-> <<"s", "t", "o", "r", "y", "s">>, correction |-> <<"s", "t", "o", "r", "i", "e", "s">>, tip |-> "\"y\" changes to \"ies\" - storIES"],
    [key |-> <<"s", "t", "o", "i", "r", "e", "s">>, correction |-> <<"s", "t", "o", "r", "i", "e", "s">>, tip |-> "Letters swapped! s-t-o-r-i-e-s"],
    [key |-> <<"f", "r", "e", "n", "d">>, correction |-> <<"f", "r", "i", "e", "n", "d">>, tip |-> "\"i\" before \"e\" - think \"I am your frIEnd\""],
    [key |-> <<"f", "r", "e", "i", "n", "d">>, correction |-> <<"f", "r", "i", "e", "n", "d">>, tip |-> "\"i\" before \"e\" except after \"c\""],
    [key |-> <<"f", "i", "r", "e", "n", "d">>, correction |-> <<"f", "r", "i", "e", "n", "d">>, tip |-> "Letters swapped! f-r-i-e-n-d"],
    [key |-> <<"w", "i", "c", "h">>, correction |-> <<"w", "h", "i", "c", "h">>, tip |-> "Starts with \"wh\" - \"WHich one?\""],
    [key |-> <<"w", "h", "i", "t", "c", "h">>, correction |-> <<"w", "h", "i", "c", "h">>, tip |-> "No \"t\" - just whICH"],
    [key |-> <<"t", "h", "i", "e", "r">>, correction |-> <<"t", "h", "e", "i", "r">>, tip |-> "\"i\" before \"e\" - \"thEIr\" belongs to thEm"],
    [key |-> <<"b", "e", "c", "u", "a", "s", "e">>, correction |-> <<"b", "e", "c", "a", "u", "s", "e">>, tip |-> "Sound it out: be-CAUSE"],
    [key |-> <<"b", "e", "a", "c", "u", "s", "e">>, correction |-> <<"b", "e", "c", "a", "u", "s", "e">>, tip |-> "Sound it out: be-CAUSE"],
    [key |-> <<"b", "e", "c", "a", "s", "u", "e">>, correction |-> <<"b", "e", "c", "a", "u", "s", "e">>, tip |-> "Sound it out: be-CAUSE"],
    [key |-> <<"b", "e", "c", "a", "u", "s">>, correction |-> <<"b", "e", "c", "a", "u", "s", "e">>, tip |-> "Don't forget the \"e\" - becausE"],
    [key |-> <<"w", "i", "e", "r", "d">>, correction |-> <<"w", "e", "i", "r", "d">>, tip |-> "\"Weird\" is weird - \"e\" before \"i\"!"],
    [key |-> <<"r", "e", "c", "i", "e", "v", "e">>, correction |-> <<"r", "e", "c", "e", "i", "v", "e">>, tip |-> "\"i\" before \"e\" EXCEPT after \"c\" - reCEIve"],
    [key |-> <<"b", "e", "l", "e", "i", "v", "e">>, correction |-> <<"b", "e", "l", "i", "e", "v", "e">>, tip |-> "Don't beLIEve a LIE"],
    [key |-> <<"b", "e", "l", "i", "v", "e">>, correction |-> <<"b", "e", "l", "i", "e", "v", "e">>, tip |-> "Don't beLIEve a LIE"],
    [key |-> <<"b", "e", "l", "e", "a", "v", "e">>, correction |-> <<"b", "e", "l", "i", "e", "v", "e">>, tip |-> "Don't beLIEve a LIE"],
    [key |-> <<"d", "e", "f", "i", "n", "a", "t", "e", "l", "y">>, correction |-> <<"d", "e", "f", "i", "n", "i", "t", "e", "l", "y">>, tip |-> "There's \"finite\" in deFINITEly"],
    [key |-> <<"d", "e", "f", "i", "n", "a", "t", "l", "y">>, correction |-> <<"d", "e", "f", "i", "n", "i", "t", "e", "l", "y">>, tip |-> "There's \"finite\" in deFINITEly"],
    [key |-> <<"d", "e", "f", "f", "i", "n", "a", "t", "e", "l", "y">>, correction |-> <<"d", "e", "f", "i", "n", "i", "t", "e", "l", "y">>, tip |-> "One \"f\", and \"finite\" inside - deFINITEly"],
    [key |-> <<"s", "e", "p", "e", "r", "a", "t", "e">>, correction |-> <<"s", "e", "p", "a", "r", "a", "t", "e">>, tip |-> "There's \"A RAT\" in sepARAte"],
    [key |-> <<"s", "e", "p", "e", "r", "e", "t", "e">>, correction |-> <<"s", "e", "p", "a", "r", "a", "t", "e">>, tip |-> "There's \"A RAT\" in sepARAte"],
    [key |-> <<"o", "c", "c", "u", "r", "e", "d">>, correction |-> <<"o", "c", "c", "u", "r", "r", "e", "d">>, tip |-> "Double \"c\", double \"r\" - oCCuRRed"],
    [key |-> <<"o", "c", "u", "r", "r", "e", "d">>, correction |-> <<"o", "c", "c", "u", "r", "r", "e", "d">>, tip |-> "Double \"c\", double \"r\" - oCCuRRed"],
    [key |-> <<"u", "n", "t", "i", "l", "l">>, correction |-> <<"u", "n", "t", "i", "l">>, tip |-> "Only ONE \"l\" - untiL"],
    [key |-> <<"t", "o", "m", "m", "o", "r", "r", "o", "w">>, correction |-> <<"t", "o", "m", "o", "r", "r", "o", "w">>, tip |-> "One \"m\", two \"r\"s - toMoRRow"],
    [key |-> <<"t", "o", "m", "m", "o", "r", "o", "w">>, correction |-> <<"t", "o", "m", "o", "r", "r", "o", "w">>, tip |-> "One \"m\", two \"r\"s - toMoRRow"],
    [key |-> <<"t", "o", "m", "o", "r", "o", "w">>, correction |-> <<"t", "o", "m", "o", "r", "r", "o", "w">>, tip |-> "Two \"r\"s - tomoRRow"],
    [key |-> <<"a", "c", "c", "o", "m", "o", "d", "a", "t", "e">>, correction |-> <<"a", "c", "c", "o", "m", "m", "o", "d", "a", "t", "e">>, tip |-> "Two \"c\"s, two \"m\"s - aCCoMModate"],
    [key |-> <<"a", "c", "o", "m", "m", "o", "d", "a", "t", "e">>, correction |-> <<"a", "c", "c", "o", "m", "m", "o", "d", "a", "t", "e">>, tip |-> "Two \"c\"s, two \"m\"s - aCCoMModate"],
    [key |-> <<"r", "e", "c", "o", "m", "e", "n", "d">>, correction |-> <<"r", "e", "c", "o", "m", "m", "e", "n", "d">>, tip |-> "One \"c\", two \"m\"s - reCOMMend"],
    [key |-> <<"r", "e", "c", "c", "o", "m", "m", "e", "n", "d">>, correction |-> <<"r", "e", "c", "o", "m", "m", "e", "n", "d">>, tip |-> "One \"c\", two \"m\"s - reCOMMend"],
    [key |-> <<"n", "e", "c", "c", "e", "s", "s", "a", "r", "y">>, correction |-> <<"n", "e", "c", "e", "s", "s", "a", "r", "y">>, tip |-> "One \"c\", two \"s\"s - neCeSSary"],
    [key |-> <<"n", "e", "c", "e", "s", "a", "r", "y">>, correction |-> <<"n", "e", "c", "e", "s", "s", "a", "r", "y">>, tip |-> "One \"c\", two \"s\"s - neCeSSary"],
    [key |-> <<"n", "e", "c", "c", "e", "s", "a", "r", "y">>, correction |-> <<"n", "e", "c", "e", "s", "s", "a", "r", "y">>, tip |-> "One \"c\", two \"s\"s - neCeSSary"],
    [key |-> <<"g", "o", "v", "e", "r", "m", "e", "n", "t">>, correction |-> <<"g", "o", "v", "e", "r", "n", "m", "e", "n", "t">>, tip |-> "Don't forget the \"n\" - goverNment"],
    [key |-> <<"g", "o", "v", "e", "n", "m", "e", "n", "t">>, correction |-> <<"g", "o", "v", "e", "r", "n", "m", "e", "n", "t">>, tip |-> "It's \"govern\" + \"ment\" - govERNment"],
    [key |-> <<"e", "n", "v", "i", "r", "o", "m", "e", "n", "t">>, correction |-> <<"e", "n", "v", "i", "r", "o", "n", "m", "e", "n", "t">>, tip |-> "Don't forget the \"n\" - enviroNment"],
    [key |-> <<"e", "n", "v", "i", "o", "r", "n", "m", "e", "n", "t">>, correction |-> <<"e", "n", "v", "i", "r", "o", "n", "m", "e", "n", "t">>, tip |-> "Watch the order - envi-RON-ment"],
    [key |-> <<"o", "c", "c", "u", "r", "e", "n", "c", "e">>, correction |-> <<"o", "c", "c", "u", "r", "r", "e", "n", "c", "e">>, tip |-> "Double \"c\", double \"r\" - oCCuRRence"],
    [key |-> <<"b", "e", "g", "i", "n", "i", "n", "g">>, correction |-> <<"b", "e", "g", "i", "n", "n", "i", "n", "g">>, tip |-> "Double \"n\" - begiNNing"],
    [key |-> <<"b", "e", "g", "g", "i", "n", "i", "n", "g">>, correction |-> <<"b", "e", "g", "i", "n", "n", "i", "n", "g">>, tip |-> "One \"g\", two \"n\"s - beGiNNing"],
    [key |-> <<"a", "r", "g", "u", "e", "m", "e", "n", "t">>, correction |-> <<"a", "r", "g", "u", "m", "e", "n", "t">>, tip |-> "No \"e\" - just argUment"],
    [key |-> <<"i", "n", "d", "e", "p", "e", "n", "d", "a", "n", "t">>, correction |-> <<"i", "n", "d", "e", "p", "e", "n", "d", "e", "n", "t">>, tip |-> "Ends in \"-ent\" not \"-ant\""],
    [key |-> <<"c", "a", "l", "e", "n", "d", "e", "r">>, correction |-> <<"c", "a", "l", "e", "n", "d", "a", "r">>, tip |-> "Ends in \"-ar\" - calendAR"],
    [key |-> <<"e", "x", "i", "s", "t", "a", "n", "c", "e">>, correction |-> <<"e", "x", "i", "s", "t", "e", "n", "c", "e">>, tip |-> "Ends in \"-ence\" - existENCE"],
    [key |-> <<"e", "x", "p", "e", "r", "i", "a", "n", "c", "e">>, correction |-> <<"e", "x", "p", "e", "r", "i", "e", "n", "c", "e">>, tip |-> "Ends in \"-ence\" - experiENCE"],
    [key |-> <<"e", "x", "p", "i", "e", "r", "e", "n", "c", "e">>, correction |-> <<"e", "x", "p", "e", "r", "i", "e", "n", "c", "e">>, tip |-> "Watch the order: ex-PER-i-ence"],
    [key |-> <<"n", "o", "t", "i", "c", "a", "b", "l", "e">>, correction |-> <<"n", "o", "t", "i", "c", "e", "a", "b", "l", "e">>, tip |-> "Keep the \"e\" - noticeABLE"],
    [key |-> <<"p", "o", "s", "e", "s", "s", "i", "o", "n">>, correction |-> <<"p", "o", "s", "s", "e", "s", "s", "i", "o", "n">>, tip |-> "Double \"s\" twice - poSSeSSion"],
    [key |-> <<"p", "r", "i", "v", "i", "l", "e", "d", "g", "e">>, correction |-> <<"p", "r", "i", "v", "i", "l", "e", "g", "e">>, tip |-> "No \"d\" - privilEGE"],
    [key |-> <<"r", "y", "t", "h", "m">>, correction |-> <<"r", "h", "y", "t", "h", "m">>, tip |-> "No vowels! R-H-Y-T-H-M"],
    [key |-> <<"r", "h", "y", "t", "h", "y", "m">>, correction |-> <<"r", "h", "y", "t", "h", "m">>, tip |-> "Only one \"y\" - rhYthm"],
    [key |-> <<"s", "u", "p", "r", "i", "s", "e">>, correction |-> <<"s", "u", "r", "p", "r", "i", "s", "e">>, tip |-> "First \"r\" is easy to miss - suRprise"],
    [key |-> <<"s", "u", "r", "p", "r", "i", "z", "e">>, correction |-> <<"s", "u", "r", "p", "r", "i", "s", "e">>, tip |-> "Ends in \"-ise\" not \"-ize\""],
    [key |-> <<"d", "i", "f", "f", "r", "e", "n", "t">>, correction |-> <<"d", "i", "f", "f", "e", "r", "e", "n", "t">>, tip |-> "Don't forget the second \"e\" - diffErEnt"],
    [key |-> <<"d", "i", "f", "f", "e", "r", "a", "n", "t">>, correction |-> <<"d", "i", "f", "f", "e", "r", "e", "n", "t">>, tip |-> "Ends in \"-ent\" - differENT"],
    [key |-> <<"b", "e", "a", "u", "t", "i", "f", "u", "l", "l">>, correction |-> <<"b", "e", "a", "u", "t", "i", "f", "u", "l">>, tip |-> "Only one \"l\" at the end - beautifuL"],
    [key |-> <<"b", "u", "e", "a", "t", "i", "f", "u", "l">>, correction |-> <<"b", "e", "a", "u", "t", "i", "f", "u", "l">>, tip |-> "Sound it out: beau-ti-ful"],
    [key |-> <<"b", "e", "u", "t", "i", "f", "u", "l">>, correction |-> <<"b", "e", "a", "u", "t", "i", "f", "u", "l">>, tip |-> "Don't forget the \"a\" - beAUtiful"],
    [key |-> <<"p", "r", "o", "b", "l", "y">>, correction |-> <<"p", "r", "o", "b", "a", "b", "l", "y">>, tip |-> "Don't forget \"ab\" - probABly"],
    [key |-> <<"p", "r", "o", "b", "a", "l", "y">>, correction |-> <<"p", "r", "o", "b", "a", "b", "l", "y">>, tip |-> "Two \"b\"s - proBaBly"],
    [key |-> <<"f", "i", "n", "a", "l", "y">>, correction |-> <<"f", "i", "n", "a", "l", "l", "y">>, tip |-> "Double \"l\" - finaLLy"],
    [key |-> <<"r", "e", "a", "l", "y">>, correction |-> <<"r", "e", "a", "l", "l", "y">>, tip |-> "Double \"l\" - reaLLy"],
    [key |-> <<"a", "c", "t", "u", "a", "l", "y">>, correction |-> <<"a", "c", "t", "u", "a", "l", "l", "y">>, tip |-> "Double \"l\" - actuaLLy"],
    [key |-> <<"b", "a", "s", "i", "c", "l", "y">>, correction |-> <<"b", "a", "s", "i", "c", "a", "l", "l", "y">>, tip |-> "It's \"basic\" + \"ally\" - basicALLy"],
    [key |-> <<"u", "s", "a", "l", "l", "y">>, correction |-> <<"u", "s", "u", "a", "l", "l", "y">>, tip |-> "Don't forget the \"u\" - usUally"],
    [key |-> <<"u", "s", "u", "s", "a", "l", "l", "y">>, correction |-> <<"u", "s", "u", "a", "l", "l", "y">>, tip |-> "Only two \"u\"s - Usually"]
  >>

COMMON_TYPOS ==
  <<
    [key |-> <<"t", "e", "h">>, correction |-> <<"t", "h", "e">>],
    [key |-> <<"t", "a", "h", "t">>, correction |-> <<"t", "h", "a", "t">>],
    [key |-> <<"a", "d", "n">>, correction |-> <<"a", "n", "d">>],
    [key |-> <<"h", "t", "e">>, correction |-> <<"t", "h", "e">>],
    [key |-> <<"t", "h", "n", "k">>, correction |-> <<"t", "h", "i", "n", "k">>],
    [key |-> <<"w", "a", "h", "t">>, correction |-> <<"w", "h", "a", "t">>],
    [key |-> <<"w", "h", "t", "a">>, correction |-> <<"w", "h", "a", "t">>],
    [key |-> <<"y", "u", "o">>, correction |-> <<"y", "o", "u">>],
    [key |-> <<"j", "s", "u", "t">>, correction |-> <<"j", "u", "s", "t">>],
    [key |-> <<"l", "i", "e", "k">>, correction |-> <<"l", "i", "k", "e">>],
    [key |-> <<"a", "o", "b", "u", "t">>, correction |-> <<"a", "b", "o", "u", "t">>],
    [key |-> <<"d", "o", "n", "t">>, correction |-> <<"d", "o", "n", "'", "t">>],
    [key |-> <<"d", "i", "d", "n", "t">>, correction |-> <<"d", "i", "d", "n", "'", "t">>],
    [key |-> <<"c", "a", "n", "t">>, correction |-> <<"c", "a", "n", "'", "t">>],
    [key |-> <<"w", "o", "n", "t">>, correction |-> <<"w", "o", "n", "'", "t">>],
    [key |-> <<"w", "o", "u", "l", "d", "n", "t">>, correction |-> <<"w", "o", "u", "l", "d", "n", "'", "t">>],
    [key |-> <<"c", "o", "u", "l", "d", "n", "t">>, correction |-> <<"c", "o", "u", "l", "d", "n", "'", "t">>],
    [key |-> <<"s", "h", "o", "u", "l", "d", "n", "t">>, correction |-> <<"s", "h", "o", "u", "l", "d", "n", "'", "t">>],
    [key |-> <<"y", "o", "u", "r", "e">>, correction |-> <<"y", "o", "u", "'", "r", "e">>],
    [key |-> <<"t", "h", "e", "y", "r", "e">>, correction |-> <<"t", "h", "e", "y", "'", "r", "e">>],
    [key |-> <<"w", "e", "v", "e">>, correction |-> <<"w", "e", "'", "v", "e">>],
    [key |-> <<"i", "v", "e">>, correction |-> <<"I", "'", "v", "e">>],
    [key |-> <<"i", "m">>, correction |-> <<"I", "'", "m">>],
    [key |-> <<"a", "l", "o", "t">>, correction |-> <<"a", " ", "l", "o", "t">>]
  >>

LETTER_REVERSALS ==
  <<
    [key |-> <<"d", "o", "y">>, correction |-> <<"b", "o", "y">>, tip |-> "b/d reversal - \"b\" has belly in front"],
    [key |-> <<"d", "a", "g">>, correction |-> <<"b", "a", "g">>, tip |-> "b/d reversal - \"b\" has belly in front"],
    [key |-> <<"d", "a", "c", "k">>, correction |-> <<"b", "a", "c", "k">>, tip |-> "b/d reversal - \"b\" has belly in front"],
    [key |-> <<"b", "o", "o", "r">>, correction |-> <<"d", "o", "o", "r">>, tip |-> "b/d reversal - \"d\" has belly behind"],
    [key |-> <<"b", "a", "t", "e">>, correction |-> <<"d", "a", "t", "e">>, tip |-> "b/d reversal - \"d\" has belly behind"],
    [key |-> <<"q", "a", "r", "k">>, correction |-> <<"p", "a", "r", "k">>, tip |-> "p/q reversal - \"p\" points right"],
    [key |-> <<"q", "e", "n">>, correction |-> <<"p", "e", "n">>, tip |-> "p/q reversal - \"p\" points right"],
    [key |-> <<"n", "i", "f", "e">>, correction |-> <<"k", "n", "i", "f", "e">>, tip |-> "Silent \"k\" at the start"],
    [key |-> <<"n", "o", "c", "k">>, correction |-> <<"k", "n", "o", "c", "k">>, tip |-> "Silent \"k\" at the start"],
    [key |-> <<"r", "o", "n", "g">>, correction |-> <<"w", "r", "o", "n", "g">>, tip |-> "Silent \"w\" at the start"],
    [key |-> <<"r", "i", "t", "e">>, correction |-> <<"w", "r", "i", "t", "e">>, tip |-> "Silent \"w\" at the start"]
  >>

HOMOPHONES ==
  <<
    [key |-> <<"t", "h", "e", "i", "r">>, alternatives |-> <<<<"t", "h", "e", "r", "e">>, <<"t", "h", "e", "y", "'", "r", "e">>>>, tip |-> "their = belongs to them | there = location | they're = they are"],
    [key |-> <<"t", "h", "e", "r", "e">>, alternatives |-> <<<<"t", "h", "e", "i", "r">>, <<"t", "h", "e", "y", "'", "r", "e">>>>, tip |-> "there = location | their = belongs to them | they're = they are"],
    [key |-> <<"t", "h", "e", "y", "'", "r", "e">>, alternatives |-> <<<<"t", "h", "e", "i", "r">>, <<"t", "h", "e", "r", "e">>>>, tip |-> "they're = they are | their = belongs to them | there = location"],
    [key |-> <<"t", "h", "e", "y", "r", "e">>, alternatives |-> <<<<"t", "h", "e", "i", "r">>, <<"t", "h", "e", "r", "e">>, <<"t", "h", "e", "y", "'", "r", "e">>>>, tip |-> "Did you mean \"they're\" (they are)?"],
    [key |-> <<"y", "o", "u", "r">>, alternatives |-> <<<<"y", "o", "u", "'", "r", "e">>>>, tip |-> "your = belongs to you | you're = you are"],
    [key |-> <<"y", "o", "u", "'", "r", "e">>, alternatives |-> <<<<"y", "o", "u", "r">>>>, tip |-> "you're = you are | your = belongs to you"],
    [key |-> <<"i", "t", "s">>, alternatives |-> <<<<"i", "t", "'", "s">>>>, tip |-> "its = belongs to it | it's = it is"],
    [key |-> <<"i", "t", "'", "s">>, alternatives |-> <<<<"i", "t", "s">>>>, tip |-> "it's = it is | its = belongs to it"],
    [key |-> <<"t", "o">>, alternatives |-> <<<<"t", "o", "o">>, <<"t", "w", "o">>>>, tip |-> "to = direction | too = also/excessive | 2 two = number 2"],
    [key |-> <<"t", "o", "o">>, alternatives |-> <<<<"t", "o">>, <<"t", "w", "o">>>>, tip |-> "too = also/excessive | to = direction | 2 two = number 2"],
    [key |-> <<"t", "w", "o">>, alternatives |-> <<<<"t", "o">>, <<"t", "o", "o">>>>, tip |-> "2 two = number 2 | to = direction | too = also"],
    [key |-> <<"a", "f", "f", "e", "c", "t">>, alternatives |-> <<<<"e", "f", "f", "e", "c", "t">>>>, tip |-> "Affect = Action (verb) | Effect = End result (noun)"],
    [key |-> <<"e", "f", "f", "e", "c", "t">>, alternatives |-> <<<<"a", "f", "f", "e", "c", "t">>>>, tip |-> "Effect = End result (noun) | Affect = Action (verb)"],
    [key |-> <<"t", "h", "e", "n">>, alternatives |-> <<<<"t", "h", "a", "n">>>>, tip |-> "then = time/sequence | than = comparison"],
    [key |-> <<"t", "h", "a", "n">>, alternatives |-> <<<<"t", "h", "e", "n">>>>, tip |-> "than = comparison | then = time/sequence"],
    [key |-> <<"a", "c", "c", "e", "p", "t">>, alternatives |-> <<<<"e", "x", "c", "e", "p", "t">>>>, tip |-> "accept = receive/agree | except = exclude"],
    [key |-> <<"e", "x", "c", "e", "p", "t">>, alternatives |-> <<<<"a", "c", "c", "e", "p", "t">>>>, tip |-> "except = exclude | accept = receive/agree"],
    [key |-> <<"l", "o", "s", "e">>, alternatives |-> <<<<"l", "o", "o", "s", "e">>>>, tip |-> "lose = misplace | loose = not tight"],
    [key |-> <<"l", "o", "o", "s", "e">>, alternatives |-> <<<<"l", "o", "s", "e">>>>, tip |-> "loose = not tight | lose = misplace"],
    [key |-> <<"w", "e", "a", "t", "h", "e", "r">>, alternatives |-> <<<<"w", "h", "e", "t", "h", "e", "r">>>>, tip |-> "weather = climate | whether = if"],
    [key |-> <<"w", "h", "e", "t", "h", "e", "r">>, alternatives |-> <<<<"w", "e", "a", "t", "h", "e", "r">>>>, tip |-> "whether = if | weather = climate"],
    [key |-> <<"r", "i", "g", "h", "t">>, alternatives |-> <<<<"w", "r", "i", "t", "e">>, <<"r", "i", "t", "e">>>>, tip |-> "right = correct | write = text | rite = ceremony"],
    [key |-> <<"w", "r", "i", "t", "e">>, alternatives |-> <<<<"r", "i", "g", "h", "t">>, <<"r", "i", "t", "e">>>>, tip |-> "write = text | right = correct | rite = ceremony"],
    [key |-> <<"k", "n", "o", "w">>, alternatives |-> <<<<"n", "o">>>>, tip |-> "know = understand | no = negative"],
    [key |-> <<"n", "o">>, alternatives |-> <<<<"k", "n", "o", "w">>>>, tip |-> "no = negative | know = understand"],
    [key |-> <<"h", "e", "a", "r">>, alternatives |-> <<<<"h", "e", "r", "e">>>>, tip |-> "hear = listen | here = this place"],
    [key |-> <<"h", "e", "r", "e">>, alternatives |-> <<<<"h", "e", "a", "r">>>>, tip |-> "here = this place | hear = listen"],
    [key |-> <<"p", "i", "e", "c", "e">>, alternatives |-> <<<<"p", "e", "a", "c", "e">>>>, tip |-> "piece = part | peace = calm"],
    [key |-> <<"p", "e", "a", "c", "e">>, alternatives |-> <<<<"p", "i", "e", "c", "e">>>>, tip |-> "peace = calm | piece = part"]
  >>

---------------------------------------------------------------------------
(* Map: new Map(entries) inserts the entries in order, a later entry with  *)
(* the same key overwriting the earlier one.                               *)

MapHas(entries, k) == \E i \in 1..Len(entries) : entries[i].key = k

MapGet(entries, k) ==
  entries[CHOOSE i \in 1..Len(entries) :
            /\ entries[i].key = k
            /\ \A j \in (i + 1)..Len(entries) : entries[j].key # k]

---------------------------------------------------------------------------
(* extractWords: the exec loop of /[a-zA-Z]+(?:'[a-zA-Z]+)?/g              *)

\* the first offset >= i that holds no ASCII letter: the end of [a-zA-Z]+
RECURSIVE LettersEnd(_, _)
LettersEnd(s, i) ==
  IF i < Len(s) /\ IsAsciiLetter(s[i + 1]) THEN LettersEnd(s, i + 1) ELSE i

\* the match of /[a-zA-Z]+/, the contraction group left out
MatchEndAt_NoContraction(s, i) ==
  IF i >= Len(s) \/ ~IsAsciiLetter(s[i + 1]) THEN -1 ELSE LettersEnd(s, i)

\* the end of the match anchored at offset i, or -1 when none starts there:
\* the greedy letter run, then the optional group 'letters when it is there
MatchEndAt(s, i) ==
  IF i >= Len(s) \/ ~IsAsciiLetter(s[i + 1]) THEN -1
  ELSE LET e == LettersEnd(s, i)
       IN  IF e + 1 < Len(s) /\ s[e + 1] = "'" /\ IsAsciiLetter(s[e + 2])
           THEN LettersEnd(s, e + 1)
           ELSE e

NoMatch == [index |-> -1, end |-> -1]

\* regex.exec(s) with regex.lastIndex = lastIndex: the leftmost match at or
\* after lastIndex, or null
RECURSIVE RegexExec(_, _)
RegexExec(s, lastIndex) ==
  IF lastIndex >= Len(s) THEN NoMatch
  ELSE IF MatchEndAt(s, lastIndex) # -1
       THEN [index |-> lastIndex, end |-> MatchEndAt(s, lastIndex)]
       ELSE RegexExec(s, lastIndex + 1)

RECURSIVE ExtractLoop(_, _, _)
ExtractLoop(s, lastIndex, acc) ==
  LET match == RegexExec(s, lastIndex) IN
  IF match = NoMatch THEN acc
  ELSE LET word       == SubSeq(s, match.index + 1, match.end)
           actualWord == substring(s, match.index, match.index + Len(word))
       IN  IF Len(word) < 2 THEN ExtractLoop(s, match.end, acc)
           ELSE IF actualWord # word THEN ExtractLoop(s, match.end, acc)
           ELSE ExtractLoop(s, match.end,
                  Append(acc, [word  |-> word,
                               start |-> match.index,
                               end   |-> match.index + Len(word)]))

\* extractWords with an inclusive end offset (end: match.index + word.length - 1)
extractWords_InclusiveEnd(s) ==
  [i \in 1..Len(ExtractLoop(s, 0, <<>>)) |->
     [ExtractLoop(s, 0, <<>>)[i] EXCEPT !.end = @ - 1]]

extractWords(s) == ExtractLoop(s, 0, <<>>)

---------------------------------------------------------------------------
(* preserveCase                                                            *)

\* preserveCase without the all-upper-case rule
preserveCase_NoUpperRule(original, correction) ==
  IF <<original[1]>> = toUpperCase(<<original[1]>>)
  THEN toUpperCase(charAt(correction, 0)) \o toLowerCase(slice(correction, 1))
  ELSE toLowerCase(correction)

preserveCase(original, correction) ==
  IF original = toUpperCase(original)
  THEN toUpperCase(correction)
  ELSE IF <<original[1]>> = toUpperCase(<<original[1]>>)
       THEN toUpperCase(charAt(correction, 0)) \o toLowerCase(slice(correction, 1))
       ELSE toLowerCase(correction)

---------------------------------------------------------------------------
(* analyzeText                                                             *)

Suggestion(w, list, conf, cat, tip) ==
  [original    |-> w.word,
   suggestions |-> list,
   confidence  |-> conf,
   source      |-> "local",
   position    |-> [start |-> w.start, end |-> w.end],
   category    |-> cat,
   tip         |-> tip]

\* 1. the record pushed on a hit in DYSLEXIA_ERRORS
DyslexiaSuggestion(w) ==
  LET dyslexiaError == MapGet(DYSLEXIA_ERRORS, toLowerCase(w.word))
  IN  Suggestion(w, <<preserveCase(w.word, dyslexiaError.correction)>>,
                 95, "purple", dyslexiaError.tip)

\* 2. the record pushed on a hit in LETTER_REVERSALS
ReversalSuggestion(w) ==
  LET reversal == MapGet(LETTER_REVERSALS, toLowerCase(w.word))
  IN  Suggestion(w, <<preserveCase(w.word, reversal.correction)>>,
                 90, "purple", reversal.tip)

\* 3. the record pushed on a hit in COMMON_TYPOS
TypoSuggestion(w) ==
  LET typoCorrection == MapGet(COMMON_TYPOS, toLowerCase(w.word)).correction
  IN  Suggestion(w, <<preserveCase(w.word, typoCorrection)>>,
                 90, "orange", "Common typo - quick fix!")

\* 4. the record pushed on a hit in HOMOPHONES:
\*    homophone.alternatives.map((h) => preserveCase(word, h))
HomophoneSuggestion(w) ==
  LET homophone == MapGet(HOMOPHONES, toLowerCase(w.word))
  IN  Suggestion(w,
                 [i \in 1..Len(homophone.alternatives) |->
                    preserveCase(w.word, homophone.alternatives[i])],
                 50, "yellow", homophone.tip)

\* the loop with the homophone probe moved ahead of the typo probe
AnalyzeWord_HomophonesFirst(w) ==
  LET lowerWord == toLowerCase(w.word) IN
  IF MapHas(DYSLEXIA_ERRORS, lowerWord) THEN <<DyslexiaSuggestion(w)>>
  ELSE IF MapHas(LETTER_REVERSALS, lowerWord) THEN <<ReversalSuggestion(w)>>
  ELSE IF MapHas(HOMOPHONES, lowerWord) THEN <<HomophoneSuggestion(w)>>
  ELSE IF MapHas(COMMON_TYPOS, lowerWord) THEN <<TypoSuggestion(w)>>
  ELSE <<>>

\* the loop with the continue of the typo branch left out
AnalyzeWord_NoContinue(w) ==
  LET lowerWord == toLowerCase(w.word) IN
  IF MapHas(DYSLEXIA_ERRORS, lowerWord) THEN <<DyslexiaSuggestion(w)>>
  ELSE IF MapHas(LETTER_REVERSALS, lowerWord) THEN <<ReversalSuggestion(w)>>
  ELSE (IF MapHas(COMMON_TYPOS, lowerWord) THEN <<TypoSuggestion(w)>> ELSE <<>>)
       \o (IF MapHas(HOMOPHONES, lowerWord) THEN <<HomophoneSuggestion(w)>> ELSE <<>>)

\* the loop without the homophone probe
AnalyzeWord_NoHomophones(w) ==
  LET lowerWord == toLowerCase(w.word) IN
  IF MapHas(DYSLEXIA_ERRORS, lowerWord) THEN <<DyslexiaSuggestion(w)>>
  ELSE IF MapHas(LETTER_REVERSALS, lowerWord) THEN <<ReversalSuggestion(w)>>
  ELSE IF MapHas(COMMON_TYPOS, lowerWord) THEN <<TypoSuggestion(w)>>
  ELSE <<>>

\* one iteration of the for loop: the records the token appends (none or
\* one); each hit ends the iteration with continue
AnalyzeWord(w) ==
  LET lowerWord == toLowerCase(w.word) IN
  IF MapHas(DYSLEXIA_ERRORS, lowerWord) THEN <<DyslexiaSuggestion(w)>>
  ELSE IF MapHas(LETTER_REVERSALS, lowerWord) THEN <<ReversalSuggestion(w)>>
  ELSE IF MapHas(COMMON_TYPOS, lowerWord) THEN <<TypoSuggestion(w)>>
  ELSE IF MapHas(HOMOPHONES, lowerWord) THEN <<HomophoneSuggestion(w)>>
  ELSE <<>>

RECURSIVE AnalyzeLoop(_, _, _)
AnalyzeLoop(ws, i, acc) ==
  IF i > Len(ws) THEN acc
  ELSE AnalyzeLoop(ws, i + 1, acc \o AnalyzeWord(ws[i]))

\* analyzeText appending to the list the previous call returned (a list
\* kept at module level) rather than to a list of its own
analyzeText_SharedList(s) ==
  AnalyzeLoop(extractWords(s), 1,
              IF returned = <<>> THEN <<>>
              ELSE returned[Len(returned)].result)

analyzeText(s) == AnalyzeLoop(extractWords(s), 1, <<>>)

---------------------------------------------------------------------------
(* Inputs of the text analysis                                             *)

MaxPieces == 3

\* every code unit of the input alphabet, whole words of the lexicon and
\* one word that is in no table
Pieces ==
  { <<"t">>, <<"o">>, <<"T">>, <<"O">>, <<"'">>, <<" ">>, <<"U+00E9">>,
    <<"t", "h", "i", "e", "r">>,
    <<"T", "H", "I", "E", "R">>,
    <<"r", "i", "t", "e">>,
    <<"d", "o", "y">>,
    <<"T", "e", "h">>,
    <<"i", "m">>,
    <<"t", "h", "e", "y", "r", "e">>,
    <<"t", "h", "e", "y", "'", "r", "e">>,
    <<"f", "o", "x">> }

RECURSIVE TextsOf(_)
TextsOf(n) ==
  IF n = 0 THEN {<<>>}
  ELSE LET shorter == TextsOf(n - 1)
       IN  shorter \cup {t \o p : t \in shorter, p \in Pieces}

Texts == TextsOf(MaxPieces)

NoSuggestions == <<>>

InitText ==
  /\ text \in Texts
  /\ ignoreList = {}
  /\ done = {}
  /\ words = <<>>
  /\ suggestions = NoSuggestions
  /\ localSuggestions = <<>>
  /\ aiSuggestions = <<>>
  /\ merged = <<>>
  /\ mergedContent = <<>>
  /\ FlowIdle /\ WordIdle /\ AiIdle /\ CsIdle /\ DbIdle /\ CsvIdle /\ RvIdle /\ PopIdle /\ FzIdle

\* a caller runs extractWords on the text
CallExtractWords ==
  /\ "extractWords" \notin done
  /\ words' = extractWords(text)
  /\ done' = done \cup {"extractWords"}
  /\ UNCHANGED <<text, ignoreList, suggestions,
                 localSuggestions, aiSuggestions, merged, mergedContent>>
  /\ UNCHANGED <<flowVars, wordVars, aiVars, csVars, dbVars, csvVars, rvVars, popVars, fzVars>>

\* a caller runs analyzeText on the text; the function has no ignore-list
\* parameter, so the caller's ignore list is not read
CallAnalyzeText ==
  /\ "analyzeText" \notin done
  /\ suggestions' = analyzeText(text)
  /\ done' = done \cup {"analyzeText"}
  /\ UNCHANGED <<text, ignoreList, words,
                 localSuggestions, aiSuggestions, merged, mergedContent>>
  /\ UNCHANGED <<flowVars, wordVars, aiVars, csVars, dbVars, csvVars, rvVars, popVars, fzVars>>

NextText == CallExtractWords \/ CallAnalyzeText

SpecText == InitText /\ [][NextText]_vars

\* the words a caller may have on its ignore list (custom terms, verified
\* entities, validated homophones), lower-case
IgnoreWords == {<<"t", "h", "i", "e", "r">>, <<"t", "o">>}

InitIgnore ==
  /\ text \in Texts
  /\ ignoreList \in SUBSET IgnoreWords
  /\ done = {}
  /\ words = <<>>
  /\ suggestions = NoSuggestions
  /\ localSuggestions = <<>>
  /\ aiSuggestions = <<>>
  /\ merged = <<>>
  /\ mergedContent = <<>>
  /\ FlowIdle /\ WordIdle /\ AiIdle /\ CsIdle /\ DbIdle /\ CsvIdle /\ RvIdle /\ PopIdle /\ FzIdle

SpecIgnore == InitIgnore /\ [][NextText]_vars

---------------------------------------------------------------------------
(* mergeSuggestions.  The Map `seen` is the sequence of its entries in     *)
(* insertion order: set on a present key replaces the value in place, on   *)
(* an absent key appends; values() lists the values in that order.         *)

MapSet(seen, k, v) ==
  IF MapHas(seen, k)
  THEN [i \in 1..Len(seen) |->
          IF seen[i].key = k THEN [key |-> k, value |-> v] ELSE seen[i]]
  ELSE Append(seen, [key |-> k, value |-> v])

MapValues(seen) == [i \in 1..Len(seen) |-> seen[i].value]

\* the first loop keyed by original as it is, without toLowerCase
RECURSIVE LocalLoop_CaseSensitive(_, _, _)
LocalLoop_CaseSensitive(list, i, seen) ==
  IF i > Len(list) THEN seen
  ELSE LocalLoop_CaseSensitive(list, i + 1, MapSet(seen, list[i].original, list[i]))

\* utils/local-ai.ts, first loop: seen.set(key, suggestion)
RECURSIVE LocalLoop(_, _, _)
LocalLoop(list, i, seen) ==
  IF i > Len(list) THEN seen
  ELSE LocalLoop(list, i + 1, MapSet(seen, toLowerCase(list[i].original), list[i]))

\* the second loop replacing on >= instead of >
AiStep_AtLeast(seen, suggestion) ==
  LET key == toLowerCase(suggestion.original) IN
  IF ~MapHas(seen, key) THEN MapSet(seen, key, suggestion)
  ELSE LET existing == MapGet(seen, key).value IN
       IF suggestion.confidence >= existing.confidence
       THEN MapSet(seen, key,
                   [existing EXCEPT !.suggestions = suggestion.suggestions,
                                    !.confidence  = suggestion.confidence,
                                    !.source      = "ai"])
       ELSE seen

\* utils/local-ai.ts, one iteration of the second loop
AiStep(seen, suggestion) ==
  LET key == toLowerCase(suggestion.original) IN
  IF ~MapHas(seen, key) THEN MapSet(seen, key, suggestion)
  ELSE LET existing == MapGet(seen, key).value IN
       IF suggestion.confidence > existing.confidence
       THEN MapSet(seen, key,
                   [existing EXCEPT !.suggestions = suggestion.suggestions,
                                    !.confidence  = suggestion.confidence,
                                    !.source      = "ai"])
       ELSE seen

RECURSIVE AiLoop(_, _, _)
AiLoop(list, i, seen) ==
  IF i > Len(list) THEN seen
  ELSE AiLoop(list, i + 1, AiStep(seen, list[i]))

mergeSuggestions(local, ai) ==
  MapValues(AiLoop(ai, 1, LocalLoop(local, 1, <<>>)))

\* the content script's mergeSuggestions: an AI suggestion is added only
\* when its key is absent
ContentAiStep(seen, s) ==
  LET key == toLowerCase(s.original) IN
  IF ~MapHas(seen, key) THEN MapSet(seen, key, s) ELSE seen

RECURSIVE ContentAiLoop(_, _, _)
ContentAiLoop(list, i, seen) ==
  IF i > Len(list) THEN seen
  ELSE ContentAiLoop(list, i + 1, ContentAiStep(seen, list[i]))

mergeSuggestionsContent(local, ai) ==
  MapValues(ContentAiLoop(ai, 1, LocalLoop(local, 1, <<>>)))

---------------------------------------------------------------------------
(* Inputs of the merge: the local list is analyzeText of a text of a few   *)
(* words; the AI list flags tokens of that text, as parseAIResponse does.  *)

MaxWords == 2
MaxAi == 2

MergeWords ==
  { <<"t", "h", "i", "e", "r">>, <<"T", "h", "i", "e", "r">>, <<"f", "o", "x">> }

RECURSIVE SentencesOf(_)
SentencesOf(n) ==
  IF n = 0 THEN {<<>>}
  ELSE LET shorter == SentencesOf(n - 1)
       IN  shorter \cup {IF t = <<>> THEN w ELSE t \o <<" ">> \o w :
                           t \in shorter, w \in MergeWords}

\* confidences an AI item may carry: below, at and above the 0.95 of a
\* dyslexia-table record
AiConfidences == {80, 95, 99}
\* the category of an AI item: a homophone judged from the context
AiCategories == {"yellow"}

\* one record pushed by parseAIResponse for an occurrence of the word
AiSuggestion(w, conf, cat) ==
  [original    |-> w.word,
   suggestions |-> << <<"t", "h", "e", "r", "e">> >>,
   confidence  |-> conf,
   source      |-> "ai",
   position    |-> [start |-> w.start, end |-> w.end],
   category    |-> cat,
   tip         |-> "Suggested by the model"]

AiRecords(s) ==
  {AiSuggestion(extractWords(s)[j], conf, cat) :
     j \in 1..Len(extractWords(s)), conf \in AiConfidences, cat \in AiCategories}

RECURSIVE ListsOf(_, _)
ListsOf(S, n) ==
  IF n = 0 THEN {<<>>}
  ELSE LET shorter == ListsOf(S, n - 1)
       IN  shorter \cup {Append(l, x) : l \in shorter, x \in S}

InitMerge ==
  /\ text \in SentencesOf(MaxWords)
  /\ ignoreList = {}
  /\ done = {}
  /\ words = <<>>
  /\ suggestions = NoSuggestions
  /\ localSuggestions = analyzeText(text)
  /\ aiSuggestions \in ListsOf(AiRecords(text), MaxAi)
  /\ merged = <<>>
  /\ mergedContent = <<>>
  /\ FlowIdle /\ WordIdle /\ AiIdle /\ CsIdle /\ DbIdle /\ CsvIdle /\ RvIdle /\ PopIdle /\ FzIdle

\* mergeSuggestions of utils/local-ai.ts
CallMergeSuggestions ==
  /\ "mergeSuggestions" \notin done
  /\ merged' = mergeSuggestions(localSuggestions, aiSuggestions)
  /\ done' = done \cup {"mergeSuggestions"}
  /\ UNCHANGED <<text, ignoreList, words, suggestions,
                 localSuggestions, aiSuggestions, mergedContent>>
  /\ UNCHANGED <<flowVars, wordVars, aiVars, csVars, dbVars, csvVars, rvVars, popVars, fzVars>>

\* mergeSuggestions of the content script
CallMergeSuggestionsContent ==
  /\ "mergeSuggestionsContent" \notin done
  /\ mergedContent' = mergeSuggestionsContent(localSuggestions, aiSuggestions)
  /\ done' = done \cup {"mergeSuggestionsContent"}
  /\ UNCHANGED <<text, ignoreList, words, suggestions,
                 localSuggestions, aiSuggestions, merged>>
  /\ UNCHANGED <<flowVars, wordVars, aiVars, csVars, dbVars, csvVars, rvVars, popVars, fzVars>>

NextMerge == CallMergeSuggestions \/ CallMergeSuggestionsContent

SpecMerge == InitMerge /\ [][NextMerge]_vars

Init == InitText \/ InitIgnore \/ InitMerge

Next == NextText \/ NextMerge

Spec == Init /\ [][Next]_vars

---------------------------------------------------------------------------
(* Properties of analyzeText and extractWords                              *)

Analyzed == "analyzeText" \in done
Extracted == "extractWords" \in done

Records == {suggestions[i] : i \in 1..Len(suggestions)}

KeysOf(entries) == {entries[i].key : i \in 1..Len(entries)}

DyslexiaKeys == KeysOf(DYSLEXIA_ERRORS)
ReversalKeys == KeysOf(LETTER_REVERSALS)
TypoKeys == KeysOf(COMMON_TYPOS)
HomophoneKeys == KeysOf(HOMOPHONES)

LexiconKeys == DyslexiaKeys \cup ReversalKeys \cup TypoKeys \cup HomophoneKeys

\* C1 - offset correctness: every record returned by analyzeText(text) has
\* 0 <= start < end <= text.length, and text.substring(start, end) is
\* exactly the record's original, casing included.
C1_OffsetCorrectness ==
  Analyzed =>
    \A r \in Records :
      /\ 0 <= r.position.start
      /\ r.position.start < r.position.end
      /\ r.position.end <= Len(text)
      /\ substring(text, r.position.start, r.position.end) = r.original

\* a record that starts inside the text and is not all lower-case
C1_Witness ==
  /\ Analyzed
  /\ \E r \in Records :
       /\ r.position.start > 0
       /\ r.position.end < Len(text)
       /\ r.original # toLowerCase(r.original)

\* C2 - every record carries the policy of the first table, in the order
\* dyslexia errors, letter reversals, common typos, homophones, that holds
\* the token's lower-case form: (purple, 0.95, one correction), (purple,
\* 0.90, one correction), (orange, 0.90, one correction) or (yellow, 0.50,
\* all the alternatives of the entry in table order); source is 'local'.
SingleCorrection(r, entries) ==
  /\ Len(r.suggestions) = 1
  /\ \E i \in 1..Len(entries) :
       /\ entries[i].key = toLowerCase(r.original)
       /\ toLowerCase(r.suggestions[1]) = toLowerCase(entries[i].correction)

AllAlternatives(r, entries) ==
  \E i \in 1..Len(entries) :
    /\ entries[i].key = toLowerCase(r.original)
    /\ Len(r.suggestions) = Len(entries[i].alternatives)
    /\ \A j \in 1..Len(r.suggestions) :
         toLowerCase(r.suggestions[j]) = toLowerCase(entries[i].alternatives[j])

PolicyHolds(r) ==
  LET k == toLowerCase(r.original) IN
  /\ r.source = "local"
  /\ IF k \in DyslexiaKeys
     THEN r.category = "purple" /\ r.confidence = 95
          /\ SingleCorrection(r, DYSLEXIA_ERRORS)
     ELSE IF k \in ReversalKeys
     THEN r.category = "purple" /\ r.confidence = 90
          /\ SingleCorrection(r, LETTER_REVERSALS)
     ELSE IF k \in TypoKeys
     THEN r.category = "orange" /\ r.confidence = 90
          /\ SingleCorrection(r, COMMON_TYPOS)
     ELSE /\ k \in HomophoneKeys
          /\ r.category = "yellow" /\ r.confidence = 50
          /\ AllAlternatives(r, HOMOPHONES)

C2_TablePolicy == Analyzed => \A r \in Records : PolicyHolds(r)

\* one call that returns a record for a key of two tables of each kind
\* (rite: dyslexia error and reversal; theyre: typo and homophone)
C2_Witness ==
  /\ Analyzed
  /\ \E r \in Records : toLowerCase(r.original) = <<"r", "i", "t", "e">>
  /\ \E r \in Records : toLowerCase(r.original) = <<"t", "h", "e", "y", "r", "e">>

\* C3 - at most one record per extracted token, in left-to-right token
\* order with strictly increasing position.start; so no two records share
\* (original.toLowerCase(), position.start).
TokenOf(r) ==
  LET ws == extractWords(text) IN
  {j \in 1..Len(ws) :
     /\ ws[j].start = r.position.start
     /\ ws[j].end = r.position.end
     /\ ws[j].word = r.original}

C3_OneRecordPerToken ==
  Analyzed =>
    /\ \A i \in 1..Len(suggestions) : Cardinality(TokenOf(suggestions[i])) = 1
    /\ \A i, j \in 1..Len(suggestions) :
         i < j =>
           /\ suggestions[i].position.start < suggestions[j].position.start
           /\ <<toLowerCase(suggestions[i].original), suggestions[i].position.start>>
                # <<toLowerCase(suggestions[j].original), suggestions[j].position.start>>

\* two records for the same word, the second for a key of two tables
C3_Witness ==
  /\ Analyzed
  /\ Len(suggestions) = 2
  /\ toLowerCase(suggestions[1].original) = toLowerCase(suggestions[2].original)
  /\ toLowerCase(suggestions[2].original) = <<"t", "h", "e", "y", "r", "e">>

\* C4 - ignore-list suppression: when the lower-case word w is on the
\* caller's ignore list, the analysis returns no record whose
\* original.toLowerCase() is w, whatever the casing of the token and even
\* when w is a key of a lexicon table.
C4_IgnoreListSuppression ==
  Analyzed => \A r \in Records : toLowerCase(r.original) \notin ignoreList

\* C5 - case preservation: every string of a record's suggestions is the
\* table correction in the token's casing, and original is the token as it
\* stands in the text.
EntirelyUpper(token) == \A i \in 1..Len(token) : token[i] \notin AsciiLower
FirstUpper(token) == token[1] \in AsciiUpper
OnlyFirstUpper(token) ==
  FirstUpper(token) /\ \A i \in 2..Len(token) : token[i] \notin AsciiUpper

TitleCased(c) == <<toUpperCaseChar(c[1])>> \o toLowerCase(Tail(c))

EntryOf(entries, k) ==
  entries[CHOOSE i \in 1..Len(entries) : entries[i].key = k]

\* the corrections the tables hold for the record's token
TableCorrections(r) ==
  LET k == toLowerCase(r.original) IN
  IF k \in DyslexiaKeys THEN <<EntryOf(DYSLEXIA_ERRORS, k).correction>>
  ELSE IF k \in ReversalKeys THEN <<EntryOf(LETTER_REVERSALS, k).correction>>
  ELSE IF k \in TypoKeys THEN <<EntryOf(COMMON_TYPOS, k).correction>>
  ELSE IF k \in HomophoneKeys THEN EntryOf(HOMOPHONES, k).alternatives
  ELSE <<>>

OriginalKept(r) ==
  r.original = SubSeq(text, r.position.start + 1, r.position.end)

\* C5 as claimed - the suggestions of a record are the table corrections
\* upper-cased for an entirely upper-case token, title-cased
\* when only the first character of the token is upper-case, lower-cased
\* otherwise
C5_CasePreservationAsClaimed ==
  Analyzed =>
    \A r \in Records :
      /\ OriginalKept(r)
      /\ Len(r.suggestions) = Len(TableCorrections(r))
      /\ \A j \in 1..Len(r.suggestions) :
           r.suggestions[j] =
             IF EntirelyUpper(r.original) THEN toUpperCase(TableCorrections(r)[j])
             ELSE IF OnlyFirstUpper(r.original) THEN TitleCased(TableCorrections(r)[j])
             ELSE toLowerCase(TableCorrections(r)[j])

\* C5 as amended - the suggestions of a record are the table corrections
\* upper-cased for an entirely upper-case token, otherwise
\* title-cased whenever the first character of the token is
\* upper-case and the token is not entirely upper-case
C5_CasePreservation ==
  Analyzed =>
    \A r \in Records :
      /\ OriginalKept(r)
      /\ Len(r.suggestions) = Len(TableCorrections(r))
      /\ \A j \in 1..Len(r.suggestions) :
           r.suggestions[j] =
             IF EntirelyUpper(r.original) THEN toUpperCase(TableCorrections(r)[j])
             ELSE IF FirstUpper(r.original) THEN TitleCased(TableCorrections(r)[j])
             ELSE toLowerCase(TableCorrections(r)[j])

\* a token whose first two characters are upper-case and whose last is not
\* (TOo), returned with title-cased alternatives
C5_Witness ==
  /\ Analyzed
  /\ \E r \in Records :
       /\ ~EntirelyUpper(r.original)
       /\ FirstUpper(r.original)
       /\ ~OnlyFirstUpper(r.original)
       /\ Len(r.suggestions) = 2
       /\ r.suggestions[1] = TitleCased(r.suggestions[1])

\* C6 - analyzeText is total and exact: it returns a list for every text,
\* the empty text included, with a record for an extracted token if and
\* only if the token's lower-case form is a key of one of the four tables.
KeyTokens(ws) == {j \in 1..Len(ws) : toLowerCase(ws[j].word) \in LexiconKeys}

C6_TotalAndExact ==
  Analyzed =>
    LET ws == extractWords(text) IN
    /\ DOMAIN suggestions = 1..Len(suggestions)
    /\ {<<r.position.start, r.position.end>> : r \in Records}
         = {<<ws[j].start, ws[j].end>> : j \in KeyTokens(ws)}
    /\ Len(suggestions) = Cardinality(KeyTokens(ws))
    /\ (text = <<>> => suggestions = <<>>)

\* a text with a token that is a key and a token that is none
C6_Witness ==
  /\ Analyzed
  /\ Len(suggestions) = 1
  /\ Len(extractWords(text)) = 2

\* C7 - tokenization: extractWords returns, left to right and without
\* overlap, exactly the maximal matches of ASCII letters optionally
\* followed by one apostrophe and more letters, minus the matches shorter
\* than 2 characters; each span re-slices the text to the token.
LetterAt(i) == i >= 0 /\ i < Len(text) /\ IsAsciiLetter(text[i + 1])
ApostropheAt(i) == i >= 0 /\ i < Len(text) /\ text[i + 1] = "'"

\* text[s, e) is letters, or letters, one apostrophe and letters
MatchesPattern(s, e) ==
  \E m \in (s + 1)..e :
    /\ \A i \in s..(m - 1) : LetterAt(i)
    /\ \/ m = e
       \/ /\ ApostropheAt(m)
          /\ m + 1 < e
          /\ \A i \in (m + 1)..(e - 1) : LetterAt(i)

HasApostrophe(s, e) == \E i \in s..(e - 1) : ApostropheAt(i)

Covered(i) == \E k \in 1..Len(words) : words[k].start <= i /\ i < words[k].end

C7_Tokenization ==
  Extracted =>
    /\ \A k \in 1..Len(words) :
         LET s == words[k].start
             e == words[k].end
         IN  /\ 0 <= s /\ e <= Len(text) /\ e - s >= 2
             /\ MatchesPattern(s, e)
             /\ words[k].word = SubSeq(text, s + 1, e)
             \* maximal: no letter on either side, and a token without an
             \* apostrophe is not followed by an apostrophe and a letter
             /\ ~LetterAt(s - 1)
             /\ ~LetterAt(e)
             /\ ~HasApostrophe(s, e) => ~(ApostropheAt(e) /\ LetterAt(e + 1))
    /\ \A k \in 1..(Len(words) - 1) : words[k].end <= words[k + 1].start
    \* every letter outside the tokens is a match of one character
    /\ \A i \in 0..(Len(text) - 1) :
         LetterAt(i) /\ ~Covered(i) =>
           /\ ~LetterAt(i - 1)
           /\ ~LetterAt(i + 1)
           /\ ~(ApostropheAt(i + 1) /\ LetterAt(i + 2))

\* a contraction returned as one token next to a dropped one-letter match
C7_Witness ==
  /\ Extracted
  /\ \E k \in 1..Len(words) : HasApostrophe(words[k].start, words[k].end)
  /\ \E i \in 0..(Len(text) - 1) : LetterAt(i) /\ ~Covered(i)

---------------------------------------------------------------------------
(* Properties of mergeSuggestions                                          *)

MergeDone == "mergeSuggestions" \in done
ContentMergeDone == "mergeSuggestionsContent" \in done

KeyOf(r) == toLowerCase(r.original)

LocalKeys == {KeyOf(localSuggestions[i]) : i \in 1..Len(localSuggestions)}

AiWith(k) == {j \in 1..Len(aiSuggestions) : KeyOf(aiSuggestions[j]) = k}

\* the AI suggestions for the key of l that are more confident than l
MoreConfident(l) ==
  {j \in AiWith(KeyOf(l)) : aiSuggestions[j].confidence > l.confidence}

\* the local suggestion that was inserted last under key k
LastLocal(k) ==
  localSuggestions[CHOOSE i \in 1..Len(localSuggestions) :
                     /\ KeyOf(localSuggestions[i]) = k
                     /\ \A j \in (i + 1)..Len(localSuggestions) :
                          KeyOf(localSuggestions[j]) # k]

\* C8 as claimed - every local suggestion is kept unless an AI suggestion
\* with the same lower-case original has strictly greater confidence.
C8_EachLocalKept ==
  MergeDone =>
    \A i \in 1..Len(localSuggestions) :
      MoreConfident(localSuggestions[i]) = {} =>
        \E m \in 1..Len(merged) : merged[m] = localSuggestions[i]

\* C8 as amended - merge replacement rule, per lower-case key: the last
\* local suggestion of a key is kept as it is unless an AI suggestion of
\* that key has strictly greater confidence; then the entry carries the
\* highest AI confidence, that suggestion's list and source 'ai'.  An AI
\* suggestion of equal or lower confidence never replaces the local one.
C8_MergeReplacementRule ==
  MergeDone =>
    \A k \in LocalKeys :
      LET l == LastLocal(k) IN
      \E m \in 1..Len(merged) :
        /\ KeyOf(merged[m]) = k
        /\ IF MoreConfident(l) = {}
           THEN merged[m] = l
           ELSE /\ merged[m].source = "ai"
                /\ merged[m].confidence > l.confidence
                /\ \A j \in AiWith(k) :
                     aiSuggestions[j].confidence <= merged[m].confidence
                /\ \E j \in MoreConfident(l) :
                     /\ merged[m].confidence = aiSuggestions[j].confidence
                     /\ merged[m].suggestions = aiSuggestions[j].suggestions

\* two local suggestions of one key, an AI suggestion of equal confidence
\* and one of greater confidence: the entry is replaced
C8_Witness ==
  /\ MergeDone
  /\ Len(localSuggestions) = 2
  /\ Cardinality(LocalKeys) = 1
  /\ \E i, j \in AiWith(KeyOf(localSuggestions[1])) :
       /\ aiSuggestions[i].confidence = localSuggestions[1].confidence
       /\ aiSuggestions[j].confidence > localSuggestions[1].confidence
  /\ Len(merged) = 1
  /\ merged[1].source = "ai"

\* C9 - when an AI suggestion replaces a local one, the merged record has
\* the category, the tip and the suggestions list of the replacement and
\* source 'ai'.
C9_ReplacementAdopted ==
  MergeDone =>
    \A m \in 1..Len(merged) :
      (merged[m].source = "ai" /\ KeyOf(merged[m]) \in LocalKeys) =>
        \E j \in AiWith(KeyOf(merged[m])) :
          /\ merged[m].confidence = aiSuggestions[j].confidence
          /\ merged[m].suggestions = aiSuggestions[j].suggestions
          /\ merged[m].category = aiSuggestions[j].category
          /\ merged[m].tip = aiSuggestions[j].tip

\* C10 - no two records of the list returned by mergeSuggestions (of
\* utils/local-ai.ts and of the content script) have the same lower-case
\* original, also when the input lists repeat a word or differ in casing.
UniqueKeys(list) ==
  \A i, j \in 1..Len(list) : i # j => KeyOf(list[i]) # KeyOf(list[j])

C10_UniqueLowercaseKeys ==
  /\ MergeDone => UniqueKeys(merged)
  /\ ContentMergeDone => UniqueKeys(mergedContent)

\* both input lists hold the word twice, in two casings
C10_Witness ==
  /\ MergeDone
  /\ ContentMergeDone
  /\ ~UniqueKeys(localSuggestions)
  /\ ~UniqueKeys(aiSuggestions)
  /\ \E i, j \in 1..Len(localSuggestions) :
       localSuggestions[i].original # localSuggestions[j].original
  /\ \E i, j \in 1..Len(aiSuggestions) :
       aiSuggestions[i].original # aiSuggestions[j].original
  /\ Len(merged) = 1
  /\ Len(mergedContent) = 1

---------------------------------------------------------------------------
(* The lexicon tables                                                      *)

UniqueTableKeys(entries) ==
  \A i, j \in 1..Len(entries) : entries[i].key = entries[j].key => i = j

\* C11 - lexicon invariant: the keys of each table are unique within the
\* table, and no key is in more than one of the dyslexia-error (phonetic),
\* letter-reversal and common-typo tables (a key of one of them may also be
\* a homophone key).  The tables are what every analysis consults.
C11_LexiconInvariant ==
  Analyzed =>
    /\ UniqueTableKeys(DYSLEXIA_ERRORS)
    /\ UniqueTableKeys(LETTER_REVERSALS)
    /\ UniqueTableKeys(COMMON_TYPOS)
    /\ UniqueTableKeys(HOMOPHONES)
    /\ DyslexiaKeys \cap ReversalKeys = {}
    /\ DyslexiaKeys \cap TypoKeys = {}
    /\ ReversalKeys \cap TypoKeys = {}

---------------------------------------------------------------------------
(* Several flows calling analyzeText.  The function is synchronous, so a   *)
(* call is one step; the calls of the flows come in any order.             *)

MaxCalls == 3

\* the logical flows: the fields (tabs) whose text is sent for analysis
Flows == {"field1", "field2"}

\* what a field may hold
FlowTexts ==
  { <<>>,
    <<"t", "h", "i", "e", "r">>,
    <<"t", "h", "i", "e", "r", " ", "t", "o">>,
    <<"T", "e", "h", " ", "f", "o", "x">>,
    <<"r", "i", "t", "e">>,
    <<"f", "o", "x">> }

InitFlows ==
  /\ fieldText \in [Flows -> FlowTexts]
  /\ returned = <<>>
  /\ TextIdle /\ WordIdle /\ AiIdle /\ CsIdle /\ DbIdle /\ CsvIdle /\ RvIdle /\ PopIdle /\ FzIdle

\* flow f has its field's text analysed: const suggestions = [], const
\* words = extractWords(text), the loop, return suggestions
AnalyzeField(f) ==
  /\ Len(returned) < MaxCalls
  /\ returned' = Append(returned, [flow   |-> f,
                                   text   |-> fieldText[f],
                                   result |-> analyzeText(fieldText[f])])
  /\ UNCHANGED fieldText
  /\ UNCHANGED <<textVars, wordVars, aiVars, csVars, dbVars, csvVars, rvVars, popVars, fzVars>>

NextFlows == \E f \in Flows : AnalyzeField(f)

SpecFlows == InitFlows /\ [][NextFlows]_vars

\* the records of a result all point into the text
PointsInto(result, s) ==
  \A k \in 1..Len(result) :
    /\ result[k].position.end <= Len(s)
    /\ result[k].original =
         SubSeq(s, result[k].position.start + 1, result[k].position.end)

---------------------------------------------------------------------------
(* getInstantCorrection                                                    *)

\* the JavaScript value null (no string is equal to it)
null == <<"null">>

\* getInstantCorrection falling back on the first homophone alternative
getInstantCorrection_WithHomophones(w) ==
  LET lowerWord == toLowerCase(w) IN
  IF MapHas(DYSLEXIA_ERRORS, lowerWord)
  THEN preserveCase(w, MapGet(DYSLEXIA_ERRORS, lowerWord).correction)
  ELSE IF MapHas(LETTER_REVERSALS, lowerWord)
  THEN preserveCase(w, MapGet(LETTER_REVERSALS, lowerWord).correction)
  ELSE IF MapHas(COMMON_TYPOS, lowerWord)
  THEN preserveCase(w, MapGet(COMMON_TYPOS, lowerWord).correction)
  ELSE IF MapHas(HOMOPHONES, lowerWord)
  THEN preserveCase(w, MapGet(HOMOPHONES, lowerWord).alternatives[1])
  ELSE null

getInstantCorrection(w) ==
  LET lowerWord == toLowerCase(w) IN
  IF MapHas(DYSLEXIA_ERRORS, lowerWord)
  THEN preserveCase(w, MapGet(DYSLEXIA_ERRORS, lowerWord).correction)
  ELSE IF MapHas(LETTER_REVERSALS, lowerWord)
  THEN preserveCase(w, MapGet(LETTER_REVERSALS, lowerWord).correction)
  ELSE IF MapHas(COMMON_TYPOS, lowerWord)
  THEN preserveCase(w, MapGet(COMMON_TYPOS, lowerWord).correction)
  ELSE null

\* a key as a user may type it: lower-case, upper-case, capitalised, and
\* with every letter but the first in upper case
CasingsOf(k) ==
  {k, toUpperCase(k), <<toUpperCaseChar(k[1])>> \o Tail(k),
   <<k[1]>> \o toUpperCase(Tail(k))}

\* the arguments: every key of the four tables in each casing, and words
\* that are no key
WordInputs ==
  UNION {CasingsOf(DYSLEXIA_ERRORS[i].key) : i \in 1..Len(DYSLEXIA_ERRORS)}
  \cup UNION {CasingsOf(LETTER_REVERSALS[i].key) : i \in 1..Len(LETTER_REVERSALS)}
  \cup UNION {CasingsOf(COMMON_TYPOS[i].key) : i \in 1..Len(COMMON_TYPOS)}
  \cup UNION {CasingsOf(HOMOPHONES[i].key) : i \in 1..Len(HOMOPHONES)}
  \cup {<<>>, <<"f", "o", "x">>, <<"t", "h", "i", "e", "r", " ">>, <<"t", "h", "i", "e", "r", "s">>, <<"U+00E9">>}

InitWord ==
  /\ instantWord \in WordInputs
  /\ instantCorrection = <<>>
  /\ TextIdle /\ FlowIdle /\ AiIdle /\ CsIdle /\ DbIdle /\ CsvIdle /\ RvIdle /\ PopIdle /\ FzIdle

CallGetInstantCorrection ==
  /\ instantCorrection = <<>>
  /\ instantCorrection' = <<getInstantCorrection(instantWord)>>
  /\ UNCHANGED instantWord
  /\ UNCHANGED <<textVars, flowVars, aiVars, csVars, dbVars, csvVars, rvVars, popVars, fzVars>>

NextWord == CallGetInstantCorrection

SpecWord == InitWord /\ [][NextWord]_vars

SingleCorrectionKeys == DyslexiaKeys \cup ReversalKeys \cup TypoKeys

\* the one correction the phonetic, reversal and typo tables hold for a key
CorrectionOf(k) ==
  IF k \in DyslexiaKeys THEN EntryOf(DYSLEXIA_ERRORS, k).correction
  ELSE IF k \in ReversalKeys THEN EntryOf(LETTER_REVERSALS, k).correction
  ELSE EntryOf(COMMON_TYPOS, k).correction

\* a correction in the casing of a word: upper-case for an upper-case
\* word, capitalised for a word that starts with an upper-case letter,
\* lower-case otherwise
CaseAdapted(w, c) ==
  IF EntirelyUpper(w) THEN toUpperCase(c)
  ELSE IF FirstUpper(w) THEN TitleCased(c)
  ELSE toLowerCase(c)

\* C13 - getInstantCorrection(word) returns the case-adapted single
\* correction when the lower-case form of word is a key of the phonetic,
\* letter-reversal or common-typo table, and null otherwise: null for a
\* word that is only a homophone key.
C13_InstantCorrection ==
  instantCorrection # <<>> =>
    LET k == toLowerCase(instantWord) IN
    IF k \in SingleCorrectionKeys
    THEN instantCorrection[1] = CaseAdapted(instantWord, CorrectionOf(k))
    ELSE instantCorrection[1] = null

\* a capitalised homophone key that is in none of the three tables
\* answered with null
C13_Witness ==
  /\ instantCorrection = <<null>>
  /\ toLowerCase(instantWord) \in HomophoneKeys \ SingleCorrectionKeys
  /\ FirstUpper(instantWord)

---------------------------------------------------------------------------
(* analyzeWithAI and parseAIResponse.  A completion is how a function      *)
(* ends: it returns a value or throws (an async function: its promise      *)
(* resolves or rejects).  The model's output is what JSON.parse makes of   *)
(* the first bracketed stretch of it, when there is one and it parses.     *)

MaxItems == 2

Return(v) == [threw |-> FALSE, value |-> v]
Throw == [threw |-> TRUE, value |-> <<>>]

\* \w of a regular expression
IsWordChar(c) ==
  \/ IsAsciiLetter(c)
  \/ c \in {"0", "1", "2", "3", "4", "5", "6", "7", "8", "9", "_"}

\* \b at offset p: a word character on exactly one side
WordBoundaryAt(s, p) ==
  LET before == p >= 1 /\ IsWordChar(s[p])
      after  == p < Len(s) /\ IsWordChar(s[p + 1])
  IN  before # after

\* new RegExp(`\\b${escapeRegExp(word)}\\b`, 'gi') matches at offset p
WordMatchesAt(s, w, p) ==
  /\ p + Len(w) <= Len(s)
  /\ toLowerCase(SubSeq(s, p + 1, p + Len(w))) = toLowerCase(w)
  /\ WordBoundaryAt(s, p)
  /\ WordBoundaryAt(s, p + Len(w))

\* the items JSON.parse may yield: null, a primitive (a number, a string),
\* or an object whose word is absent, a number (not 0), or a string
ObjectItem(wordType, w, fix, cat, confType, conf, tip) ==
  [type |-> "object", wordType |-> wordType, word |-> w, fix |-> fix,
   cat |-> cat, confType |-> confType, conf |-> conf, tip |-> tip]

NullItem ==
  [ObjectItem("undefined", <<>>, <<>>, "", "undefined", 0, "")
     EXCEPT !.type = "null"]

PrimitiveItem ==
  [ObjectItem("undefined", <<>>, <<>>, "", "undefined", 0, "")
     EXCEPT !.type = "primitive"]

AiItems ==
  { NullItem,
    PrimitiveItem,
    ObjectItem("string", <<"t", "h", "i", "e", "r">>, <<"t", "h", "e", "i", "r">>, "purple", "number", 95,
               "i before e"),
    ObjectItem("string", <<"t", "o">>, <<"t", "o", "o">>, "yellow", "undefined", 0, ""),
    ObjectItem("string", <<"t", "h", "i", "e", "r">>, <<"t", "h", "e", "r", "e">>, "mauve", "number", 150, ""),
    ObjectItem("number", <<>>, <<"t", "h", "e", "i", "r">>, "purple", "number", 90, ""),
    ObjectItem("undefined", <<>>, <<"t", "h", "e", "i", "r">>, "purple", "number", 90, "") }

\* what the model answered: prose without a bracketed stretch, a bracketed
\* stretch that is no JSON, or a JSON array
ProseResponse == [kind |-> "prose", items |-> <<>>]
BadJsonResponse == [kind |-> "badjson", items |-> <<>>]
ArrayResponse(items) == [kind |-> "array", items |-> items]

AiResponses ==
  {ProseResponse, BadJsonResponse}
  \cup {ArrayResponse(items) : items \in ListsOf(AiItems, MaxItems)}

validCategories == {"purple", "yellow", "blue", "orange", "green"}

\* the while loop over regex.exec(originalText): one record per match
RECURSIVE ItemMatches(_, _, _, _, _, _)
ItemMatches(originalText, item, category, confidence, lastIndex, acc) ==
  LET hits == {p \in lastIndex..Len(originalText) :
                 WordMatchesAt(originalText, item.word, p)}
  IN  IF hits = {} THEN acc
      ELSE LET index    == CHOOSE p \in hits : \A q \in hits : p <= q
               isEntity == category = "blue"
           IN  ItemMatches(originalText, item, category, confidence,
                 index + Len(item.word),
                 Append(acc,
                   [original    |-> SubSeq(originalText, index + 1,
                                           index + Len(item.word)),
                    suggestions |-> <<item.fix>>,
                    confidence  |-> confidence,
                    source      |-> "ai",
                    position    |-> [start |-> index,
                                     end   |-> index + Len(item.word)],
                    category    |-> category,
                    tip         |-> IF item.tip # "" THEN item.tip
                                    ELSE "Suggested",
                    isEntity    |-> isEntity]))

\* the for loop of parseAIResponse over the parsed array
RECURSIVE ParseLoop(_, _, _, _, _)
ParseLoop(parsed, i, originalText, foundWords, acc) ==
  IF i > Len(parsed) THEN Return(acc)
  ELSE LET item == parsed[i] IN
       IF item.type = "null" THEN Throw          \* item.word of null
       ELSE IF \/ item.type = "primitive"
               \/ item.wordType = "undefined"
               \/ item.wordType = "string" /\ item.word = <<>>
               \/ item.fix = <<>>
       THEN ParseLoop(parsed, i + 1, originalText, foundWords, acc)
       ELSE IF item.wordType = "number" THEN Throw   \* no toLowerCase
       ELSE LET wordLower  == toLowerCase(item.word)
                category   == IF item.cat \in validCategories
                              THEN item.cat ELSE "purple"
                confidence == IF item.confType = "number"
                              THEN Max(0, Min(100, item.conf))
                              ELSE IF category = "yellow" THEN 60 ELSE 90
            IN  IF wordLower \in foundWords
                THEN ParseLoop(parsed, i + 1, originalText, foundWords, acc)
                ELSE ParseLoop(parsed, i + 1, originalText,
                       foundWords \cup {wordLower},
                       ItemMatches(originalText, item, category, confidence,
                                   0, acc))

\* try { ... } catch (e) { return [] } of parseAIResponse
ParseCatch(completion) ==
  IF completion.threw THEN Return(<<>>) ELSE completion

parseAIResponse(response, originalText) ==
  IF response.kind = "prose" THEN Return(<<>>)
  ELSE IF response.kind = "badjson" THEN ParseCatch(Throw)
  ELSE ParseCatch(ParseLoop(response.items, 1, originalText, {}, <<>>))

\* what the backend does with the query
Reply(outcome, response) == [outcome |-> outcome, response |-> response]

\* fetch rejects (endpoint unreachable), the status is not OK, the body is
\* no JSON, the body has no response field, the body has one
OllamaReplies ==
  {Reply(o, ArrayResponse(<<>>)) : o \in {"rejects", "notOk", "badBody", "empty"}}
  \cup {Reply("content", r) : r \in AiResponses}

\* browserEngine is null, create() rejects, the choice has no content, it
\* has one
BrowserReplies ==
  {Reply(o, ArrayResponse(<<>>)) : o \in {"rejects", "empty"}}
  \cup {Reply("content", r) : r \in AiResponses}

queryOllama(reply) ==
  IF reply.outcome \in {"rejects", "notOk", "badBody"} THEN Throw
  ELSE Return(reply.response)

queryBrowserAI(reply) ==
  IF browserEngine = "null" THEN Throw
  ELSE IF reply.outcome = "rejects" THEN Throw
  ELSE Return(reply.response)

\* analyzeWithAI whose try has no catch
AnalyzeCatch_Rethrow(completion) == completion

\* try { ... } catch (error) { return [] } of analyzeWithAI
AnalyzeCatch(completion) ==
  IF completion.threw THEN Return(<<>>) ELSE completion

\* the texts handed to analyzeWithAI
AiTexts == {<<>>, <<"t", "o">>, <<"t", "h", "i", "e", "r", " ", "t", "o">>, <<"T", "h", "i", "e", "r", " ", "t", "h", "i", "e", "r">>}

InitAi ==
  /\ aiText \in AiTexts
  /\ aiBackend \in {"ollama", "browser"}
  /\ browserEngine \in {"null", "engine"}
  /\ aiState = "idle"
  /\ aiReply = <<>>
  /\ aiResult = <<>>
  /\ TextIdle /\ FlowIdle /\ WordIdle /\ CsIdle /\ DbIdle /\ CsvIdle /\ RvIdle /\ PopIdle /\ FzIdle

\* analyzeWithAI up to its await: the early return for a short text, then
\* the prompt is built (nothing of it is kept) and the query is sent; with
\* the browser backend and no engine, queryBrowserAI throws at once
CallAnalyzeWithAI ==
  /\ aiState = "idle"
  /\ IF Len(aiText) < 3
     THEN /\ aiState' = "resolved"
          /\ aiResult' = <<>>
     ELSE /\ aiState' = "awaiting"
          /\ UNCHANGED aiResult
  /\ UNCHANGED <<aiText, aiBackend, browserEngine, aiReply>>
  /\ UNCHANGED <<textVars, flowVars, wordVars, csVars, dbVars, csvVars, rvVars, popVars, fzVars>>

\* the query settles and analyzeWithAI runs to its end
SettleAnalyzeWithAI ==
  /\ aiState = "awaiting"
  /\ \E reply \in IF aiBackend = "ollama" THEN OllamaReplies
                  ELSE BrowserReplies :
       LET queried    == IF aiBackend = "ollama" THEN queryOllama(reply)
                         ELSE queryBrowserAI(reply)
           completion == AnalyzeCatch(
                           IF queried.threw THEN Throw
                           ELSE parseAIResponse(queried.value, aiText))
       IN  /\ aiReply' = reply
           /\ aiState' = IF completion.threw THEN "rejected" ELSE "resolved"
           /\ aiResult' = completion.value
  /\ UNCHANGED <<aiText, aiBackend, browserEngine>>
  /\ UNCHANGED <<textVars, flowVars, wordVars, csVars, dbVars, csvVars, rvVars, popVars, fzVars>>

NextAi == CallAnalyzeWithAI \/ SettleAnalyzeWithAI

SpecAi == InitAi /\ [][NextAi]_vars

\* the query has settled
AiSettled == aiState \in {"resolved", "rejected"} /\ Len(aiText) >= 3

\* the backend failed: no engine, or the endpoint unreachable or not OK or
\* answering with a body that is no JSON
BackendFailed ==
  \/ aiBackend = "browser" /\ browserEngine = "null"
  \/ aiReply.outcome = "rejects"
  \/ aiBackend = "ollama" /\ aiReply.outcome \in {"notOk", "badBody"}

\* the model's output is malformed: no JSON array in it, JSON that does
\* not parse, or an array with an item the parser cannot read
MalformedOutput ==
  /\ aiReply.outcome = "content"
  /\ \/ aiReply.response.kind \in {"prose", "badjson"}
     \/ \E i \in 1..Len(aiReply.response.items) :
          \/ aiReply.response.items[i].type = "null"
          \/ /\ aiReply.response.items[i].type = "object"
             /\ aiReply.response.items[i].wordType = "number"
             /\ aiReply.response.items[i].fix # <<>>
             /\ \A j \in 1..(i - 1) : aiReply.response.items[j].type # "null"

\* C14 - AI failures degrade to zero suggestions: analyzeWithAI never
\* rejects, and a backend failure (engine not initialised, endpoint
\* unreachable or not OK) or malformed model output (no JSON array,
\* unparsable JSON) makes it resolve to the empty list.
C14_FailuresDegrade ==
  /\ aiState # "rejected"
  /\ AiSettled /\ (BackendFailed \/ MalformedOutput) => aiResult = <<>>

\* Ollama answered with an array whose first item matches the text and
\* whose second is null: the parser throws at the second item, and the call
\* resolves to the empty list
C14_Witness ==
  /\ AiSettled
  /\ aiResult = <<>>
  /\ aiBackend = "ollama"
  /\ aiReply.outcome = "content"
  /\ aiReply.response.kind = "array"
  /\ Len(aiReply.response.items) = 2
  /\ aiReply.response.items[1].type = "object"
  /\ aiReply.response.items[1].wordType = "string"
  /\ aiReply.response.items[2].type = "null"
  /\ WordMatchesAt(aiText, aiReply.response.items[1].word, 0)

---------------------------------------------------------------------------
(* The phonetic engine (utils/phonetic-engine.ts), which the content       *)
(* scripts import as analyzeTextLocal.  Its functions carry the prefix     *)
(* phonetic where the name is taken by utils/local-ai.ts.                  *)

\* the dictionary of the phonetic engine: misspelling -> correct spelling
DYSLEXIA_DICTIONARY ==
  << [key |-> <<"f", "r", "e", "n", "d">>,
      correction |-> <<"f", "r", "i", "e", "n", "d">>],
     [key |-> <<"f", "r", "e", "i", "n", "d">>,
      correction |-> <<"f", "r", "i", "e", "n", "d">>],
     [key |-> <<"w", "i", "c", "h">>,
      correction |-> <<"w", "h", "i", "c", "h">>],
     [key |-> <<"t", "h", "i", "e", "r">>,
      correction |-> <<"t", "h", "e", "i", "r">>],
     [key |-> <<"t", "e", "h">>,
      correction |-> <<"t", "h", "e">>],
     [key |-> <<"t", "a", "h", "t">>,
      correction |-> <<"t", "h", "a", "t">>],
     [key |-> <<"a", "d", "n">>,
      correction |-> <<"a", "n", "d">>],
     [key |-> <<"b", "e", "c", "u", "a", "s", "e">>,
      correction |-> <<"b", "e", "c", "a", "u", "s", "e">>],
     [key |-> <<"b", "e", "a", "c", "u", "s", "e">>,
      correction |-> <<"b", "e", "c", "a", "u", "s", "e">>],
     [key |-> <<"b", "e", "c", "a", "s", "u", "e">>,
      correction |-> <<"b", "e", "c", "a", "u", "s", "e">>],
     [key |-> <<"w", "i", "e", "r", "d">>,
      correction |-> <<"w", "e", "i", "r", "d">>],
     [key |-> <<"r", "e", "c", "i", "e", "v", "e">>,
      correction |-> <<"r", "e", "c", "e", "i", "v", "e">>],
     [key |-> <<"b", "e", "l", "e", "i", "v", "e">>,
      correction |-> <<"b", "e", "l", "i", "e", "v", "e">>],
     [key |-> <<"b", "e", "l", "i", "v", "e">>,
      correction |-> <<"b", "e", "l", "i", "e", "v", "e">>],
     [key |-> <<"d", "e", "f", "i", "n", "a", "t", "e", "l", "y">>,
      correction |-> <<"d", "e", "f", "i", "n", "i", "t", "e", "l", "y">>],
     [key |-> <<"d", "e", "f", "i", "n", "a", "t", "l", "y">>,
      correction |-> <<"d", "e", "f", "i", "n", "i", "t", "e", "l", "y">>],
     [key |-> <<"s", "e", "p", "e", "r", "a", "t", "e">>,
      correction |-> <<"s", "e", "p", "a", "r", "a", "t", "e">>],
     [key |-> <<"o", "c", "c", "u", "r", "e", "d">>,
      correction |-> <<"o", "c", "c", "u", "r", "r", "e", "d">>],
     [key |-> <<"u", "n", "t", "i", "l", "l">>,
      correction |-> <<"u", "n", "t", "i", "l">>],
     [key |-> <<"t", "o", "m", "m", "o", "r", "r", "o", "w">>,
      correction |-> <<"t", "o", "m", "o", "r", "r", "o", "w">>],
     [key |-> <<"t", "o", "m", "m", "o", "r", "o", "w">>,
      correction |-> <<"t", "o", "m", "o", "r", "r", "o", "w">>],
     [key |-> <<"a", "c", "c", "o", "m", "o", "d", "a", "t", "e">>,
      correction |-> <<"a", "c", "c", "o", "m", "m", "o", "d", "a", "t", "e">>],
     [key |-> <<"r", "e", "c", "o", "m", "e", "n", "d">>,
      correction |-> <<"r", "e", "c", "o", "m", "m", "e", "n", "d">>],
     [key |-> <<"n", "e", "c", "c", "e", "s", "s", "a", "r", "y">>,
      correction |-> <<"n", "e", "c", "e", "s", "s", "a", "r", "y">>],
     [key |-> <<"n", "e", "c", "e", "s", "a", "r", "y">>,
      correction |-> <<"n", "e", "c", "e", "s", "s", "a", "r", "y">>],
     [key |-> <<"g", "o", "v", "e", "r", "m", "e", "n", "t">>,
      correction |-> <<"g", "o", "v", "e", "r", "n", "m", "e", "n", "t">>],
     [key |-> <<"e", "n", "v", "i", "r", "o", "m", "e", "n", "t">>,
      correction |-> <<"e", "n", "v", "i", "r", "o", "n", "m", "e", "n", "t">>],
     [key |-> <<"o", "c", "c", "u", "r", "e", "n", "c", "e">>,
      correction |-> <<"o", "c", "c", "u", "r", "r", "e", "n", "c", "e">>],
     [key |-> <<"r", "e", "f", "e", "r", "e", "d">>,
      correction |-> <<"r", "e", "f", "e", "r", "r", "e", "d">>],
     [key |-> <<"b", "e", "g", "i", "n", "i", "n", "g">>,
      correction |-> <<"b", "e", "g", "i", "n", "n", "i", "n", "g">>],
     [key |-> <<"a", "r", "g", "u", "e", "m", "e", "n", "t">>,
      correction |-> <<"a", "r", "g", "u", "m", "e", "n", "t">>],
     [key |-> <<"i", "n", "d", "e", "p", "e", "n", "d", "a", "n", "t">>,
      correction |-> <<"i", "n", "d", "e", "p", "e", "n", "d", "e", "n", "t">>],
     [key |-> <<"c", "a", "l", "e", "n", "d", "e", "r">>,
      correction |-> <<"c", "a", "l", "e", "n", "d", "a", "r">>],
     [key |-> <<"e", "x", "i", "s", "t", "a", "n", "c", "e">>,
      correction |-> <<"e", "x", "i", "s", "t", "e", "n", "c", "e">>],
     [key |-> <<"e", "x", "p", "e", "r", "i", "a", "n", "c", "e">>,
      correction |-> <<"e", "x", "p", "e", "r", "i", "e", "n", "c", "e">>],
     [key |-> <<"n", "o", "t", "i", "c", "a", "b", "l", "e">>,
      correction |-> <<"n", "o", "t", "i", "c", "e", "a", "b", "l", "e">>],
     [key |-> <<"p", "u", "b", "l", "i", "c", "a", "l", "l", "y">>,
      correction |-> <<"p", "u", "b", "l", "i", "c", "l", "y">>],
     [key |-> <<"p", "o", "s", "e", "s", "s", "i", "o", "n">>,
      correction |-> <<"p", "o", "s", "s", "e", "s", "s", "i", "o", "n">>],
     [key |-> <<"p", "e", "r", "s", "i", "s", "t", "a", "n", "t">>,
      correction |-> <<"p", "e", "r", "s", "i", "s", "t", "e", "n", "t">>],
     [key |-> <<"p", "r", "i", "v", "i", "l", "e", "d", "g", "e">>,
      correction |-> <<"p", "r", "i", "v", "i", "l", "e", "g", "e">>],
     [key |-> <<"p", "r", "o", "n", "o", "u", "n", "c", "i", "a", "t", "i", "o", "n">>,
      correction |-> <<"p", "r", "o", "n", "u", "n", "c", "i", "a", "t", "i", "o", "n">>],
     [key |-> <<"q", "u", "e", "s", "t", "i", "o", "n", "a", "i", "r", "e">>,
      correction |-> <<"q", "u", "e", "s", "t", "i", "o", "n", "n", "a", "i", "r", "e">>],
     [key |-> <<"r", "y", "t", "h", "m">>,
      correction |-> <<"r", "h", "y", "t", "h", "m">>],
     [key |-> <<"s", "i", "e", "z", "e">>,
      correction |-> <<"s", "e", "i", "z", "e">>],
     [key |-> <<"s", "u", "p", "r", "i", "s", "e">>,
      correction |-> <<"s", "u", "r", "p", "r", "i", "s", "e">>],
     [key |-> <<"t", "e", "m", "p", "e", "r", "t", "u", "r", "e">>,
      correction |-> <<"t", "e", "m", "p", "e", "r", "a", "t", "u", "r", "e">>],
     [key |-> <<"v", "a", "c", "c", "u", "u", "m">>,
      correction |-> <<"v", "a", "c", "u", "u", "m">>],
     [key |-> <<"d", "o", "y">>,
      correction |-> <<"b", "o", "y">>],
     [key |-> <<"d", "a", "g">>,
      correction |-> <<"b", "a", "g">>],
     [key |-> <<"d", "a", "c", "k">>,
      correction |-> <<"b", "a", "c", "k">>],
     [key |-> <<"d", "u", "r", "g", "e", "r">>,
      correction |-> <<"b", "u", "r", "g", "e", "r">>],
     [key |-> <<"b", "o", "o", "r">>,
      correction |-> <<"d", "o", "o", "r">>],
     [key |-> <<"b", "a", "t", "e">>,
      correction |-> <<"d", "a", "t", "e">>],
     [key |-> <<"b", "i", "n", "n", "e", "r">>,
      correction |-> <<"d", "i", "n", "n", "e", "r">>],
     [key |-> <<"q", "a", "r", "k">>,
      correction |-> <<"p", "a", "r", "k">>],
     [key |-> <<"q", "e", "n">>,
      correction |-> <<"p", "e", "n">>],
     [key |-> <<"h", "t", "e">>,
      correction |-> <<"t", "h", "e">>],
     [key |-> <<"t", "h", "n", "k">>,
      correction |-> <<"t", "h", "i", "n", "k">>],
     [key |-> <<"d", "o", "n", "t">>,
      correction |-> <<"d", "o", "n", "'", "t">>],
     [key |-> <<"d", "i", "d", "n", "t">>,
      correction |-> <<"d", "i", "d", "n", "'", "t">>],
     [key |-> <<"c", "a", "n", "t">>,
      correction |-> <<"c", "a", "n", "'", "t">>],
     [key |-> <<"w", "o", "n", "t">>,
      correction |-> <<"w", "o", "n", "'", "t">>],
     [key |-> <<"w", "o", "u", "l", "d", "n", "t">>,
      correction |-> <<"w", "o", "u", "l", "d", "n", "'", "t">>],
     [key |-> <<"c", "o", "u", "l", "d", "n", "t">>,
      correction |-> <<"c", "o", "u", "l", "d", "n", "'", "t">>],
     [key |-> <<"s", "h", "o", "u", "l", "d", "n", "t">>,
      correction |-> <<"s", "h", "o", "u", "l", "d", "n", "'", "t">>],
     [key |-> <<"y", "o", "u", "r", "e">>,
      correction |-> <<"y", "o", "u", "'", "r", "e">>],
     [key |-> <<"t", "h", "e", "y", "r", "e">>,
      correction |-> <<"t", "h", "e", "y", "'", "r", "e">>],
     [key |-> <<"w", "e", "v", "e">>,
      correction |-> <<"w", "e", "'", "v", "e">>],
     [key |-> <<"i", "v", "e">>,
      correction |-> <<"I", "'", "v", "e">>],
     [key |-> <<"i", "m">>,
      correction |-> <<"I", "'", "m">>],
     [key |-> <<"i", "t", "s">>,
      correction |-> <<"i", "t", "'", "s">>],
     [key |-> <<"n", "i", "f", "e">>,
      correction |-> <<"k", "n", "i", "f", "e">>],
     [key |-> <<"n", "o", "c", "k">>,
      correction |-> <<"k", "n", "o", "c", "k">>],
     [key |-> <<"n", "o", "w", "l", "e", "d", "g", "e">>,
      correction |-> <<"k", "n", "o", "w", "l", "e", "d", "g", "e">>],
     [key |-> <<"r", "o", "n", "g">>,
      correction |-> <<"w", "r", "o", "n", "g">>],
     [key |-> <<"r", "i", "t", "e">>,
      correction |-> <<"w", "r", "i", "t", "e">>],
     [key |-> <<"r", "i", "t", "i", "n", "g">>,
      correction |-> <<"w", "r", "i", "t", "i", "n", "g">>],
     [key |-> <<"a", "n", "s", "e", "r">>,
      correction |-> <<"a", "n", "s", "w", "e", "r">>],
     [key |-> <<"l", "i", "s", "s", "e", "n">>,
      correction |-> <<"l", "i", "s", "t", "e", "n">>],
     [key |-> <<"o", "f", "f", "e", "n">>,
      correction |-> <<"o", "f", "t", "e", "n">>],
     [key |-> <<"w", "e", "t", "h", "e", "r">>,
      correction |-> <<"w", "h", "e", "t", "h", "e", "r">>],
     [key |-> <<"w", "h", "e", "a", "t", "h", "e", "r">>,
      correction |-> <<"w", "e", "a", "t", "h", "e", "r">>],
     [key |-> <<"a", "l", "o", "t">>,
      correction |-> <<"a", " ", "l", "o", "t">>],
     [key |-> <<"a", "l", "r", "i", "g", "h", "t">>,
      correction |-> <<"a", "l", "l", " ", "r", "i", "g", "h", "t">>],
     [key |-> <<"e", "v", "e", "r", "y", "t", "i", "m", "e">>,
      correction |-> <<"e", "v", "e", "r", "y", " ", "t", "i", "m", "e">>],
     [key |-> <<"e", "a", "c", "h", "o", "t", "h", "e", "r">>,
      correction |-> <<"e", "a", "c", "h", " ", "o", "t", "h", "e", "r">>],
     [key |-> <<"i", "n", "c", "a", "s", "e">>,
      correction |-> <<"i", "n", " ", "c", "a", "s", "e">>] >>

\* the homophones of the phonetic engine: word -> the words it is confused with
PHONETIC_HOMOPHONES ==
  << [key |-> <<"t", "h", "e", "i", "r">>,
      alternatives |-> << <<"t", "h", "e", "r", "e">>, <<"t", "h", "e", "y", "'", "r", "e">> >>],
     [key |-> <<"t", "h", "e", "r", "e">>,
      alternatives |-> << <<"t", "h", "e", "i", "r">>, <<"t", "h", "e", "y", "'", "r", "e">> >>],
     [key |-> <<"t", "h", "e", "y", "'", "r", "e">>,
      alternatives |-> << <<"t", "h", "e", "i", "r">>, <<"t", "h", "e", "r", "e">> >>],
     [key |-> <<"y", "o", "u", "r">>,
      alternatives |-> << <<"y", "o", "u", "'", "r", "e">> >>],
     [key |-> <<"y", "o", "u", "'", "r", "e">>,
      alternatives |-> << <<"y", "o", "u", "r">> >>],
     [key |-> <<"i", "t", "s">>,
      alternatives |-> << <<"i", "t", "'", "s">> >>],
     [key |-> <<"i", "t", "'", "s">>,
      alternatives |-> << <<"i", "t", "s">> >>],
     [key |-> <<"t", "o">>,
      alternatives |-> << <<"t", "o", "o">>, <<"t", "w", "o">> >>],
     [key |-> <<"t", "o", "o">>,
      alternatives |-> << <<"t", "o">>, <<"t", "w", "o">> >>],
     [key |-> <<"t", "w", "o">>,
      alternatives |-> << <<"t", "o">>, <<"t", "o", "o">> >>],
     [key |-> <<"w", "e", "a", "t", "h", "e", "r">>,
      alternatives |-> << <<"w", "h", "e", "t", "h", "e", "r">> >>],
     [key |-> <<"w", "h", "e", "t", "h", "e", "r">>,
      alternatives |-> << <<"w", "e", "a", "t", "h", "e", "r">> >>],
     [key |-> <<"r", "i", "g", "h", "t">>,
      alternatives |-> << <<"w", "r", "i", "t", "e">>, <<"r", "i", "t", "e">> >>],
     [key |-> <<"w", "r", "i", "t", "e">>,
      alternatives |-> << <<"r", "i", "g", "h", "t">>, <<"r", "i", "t", "e">> >>],
     [key |-> <<"k", "n", "o", "w">>,
      alternatives |-> << <<"n", "o">> >>],
     [key |-> <<"n", "o">>,
      alternatives |-> << <<"k", "n", "o", "w">> >>],
     [key |-> <<"n", "e", "w">>,
      alternatives |-> << <<"k", "n", "e", "w">> >>],
     [key |-> <<"k", "n", "e", "w">>,
      alternatives |-> << <<"n", "e", "w">> >>],
     [key |-> <<"h", "e", "a", "r">>,
      alternatives |-> << <<"h", "e", "r", "e">> >>],
     [key |-> <<"h", "e", "r", "e">>,
      alternatives |-> << <<"h", "e", "a", "r">> >>],
     [key |-> <<"b", "y", "e">>,
      alternatives |-> << <<"b", "y">>, <<"b", "u", "y">> >>],
     [key |-> <<"b", "y">>,
      alternatives |-> << <<"b", "y", "e">>, <<"b", "u", "y">> >>],
     [key |-> <<"b", "u", "y">>,
      alternatives |-> << <<"b", "y", "e">>, <<"b", "y">> >>],
     [key |-> <<"p", "i", "e", "c", "e">>,
      alternatives |-> << <<"p", "e", "a", "c", "e">> >>],
     [key |-> <<"p", "e", "a", "c", "e">>,
      alternatives |-> << <<"p", "i", "e", "c", "e">> >>],
     [key |-> <<"p", "r", "i", "n", "c", "i", "p", "a", "l">>,
      alternatives |-> << <<"p", "r", "i", "n", "c", "i", "p", "l", "e">> >>],
     [key |-> <<"p", "r", "i", "n", "c", "i", "p", "l", "e">>,
      alternatives |-> << <<"p", "r", "i", "n", "c", "i", "p", "a", "l">> >>],
     [key |-> <<"a", "f", "f", "e", "c", "t">>,
      alternatives |-> << <<"e", "f", "f", "e", "c", "t">> >>],
     [key |-> <<"e", "f", "f", "e", "c", "t">>,
      alternatives |-> << <<"a", "f", "f", "e", "c", "t">> >>],
     [key |-> <<"a", "c", "c", "e", "p", "t">>,
      alternatives |-> << <<"e", "x", "c", "e", "p", "t">> >>],
     [key |-> <<"e", "x", "c", "e", "p", "t">>,
      alternatives |-> << <<"a", "c", "c", "e", "p", "t">> >>],
     [key |-> <<"l", "o", "s", "e">>,
      alternatives |-> << <<"l", "o", "o", "s", "e">> >>],
     [key |-> <<"l", "o", "o", "s", "e">>,
      alternatives |-> << <<"l", "o", "s", "e">> >>],
     [key |-> <<"t", "h", "e", "n">>,
      alternatives |-> << <<"t", "h", "a", "n">> >>],
     [key |-> <<"t", "h", "a", "n">>,
      alternatives |-> << <<"t", "h", "e", "n">> >>] >>

\* /\b[a-zA-Z']+\b/ matches s[p+1..e]
PhoneticMatch(s, p, e) ==
  /\ p < e
  /\ e <= Len(s)
  /\ WordBoundaryAt(s, p)
  /\ WordBoundaryAt(s, e)
  /\ \A i \in (p + 1)..e : IsAsciiLetter(s[i]) \/ s[i] = "'"

\* regex.exec from lastIndex: the leftmost match, the longest at its start
RECURSIVE phoneticExtractLoop(_, _, _)
phoneticExtractLoop(s, lastIndex, acc) ==
  LET starts == {p \in lastIndex..Len(s) :
                   \E e \in (p + 1)..Len(s) : PhoneticMatch(s, p, e)}
  IN  IF starts = {} THEN acc
      ELSE LET index == CHOOSE p \in starts : \A q \in starts : p <= q
               ends  == {e \in (index + 1)..Len(s) : PhoneticMatch(s, index, e)}
               end   == CHOOSE e \in ends : \A f \in ends : f <= e
           IN  phoneticExtractLoop(s, end,
                 Append(acc, [word  |-> SubSeq(s, index + 1, end),
                              start |-> index,
                              end   |-> end]))

phoneticExtractWords(s) == phoneticExtractLoop(s, 0, <<>>)

\* preserveCase of the phonetic engine: the title-case branch keeps the
\* case of the correction's tail
phoneticPreserveCase(original, correction) ==
  IF original = toUpperCase(original)
  THEN toUpperCase(correction)
  ELSE IF <<original[1]>> = toUpperCase(<<original[1]>>)
       THEN toUpperCase(charAt(correction, 0)) \o slice(correction, 1)
       ELSE toLowerCase(correction)

\* one iteration of the for loop of the phonetic analyzeText
phoneticAnalyzeWord(w) ==
  LET lowerWord == toLowerCase(w.word) IN
  IF MapHas(DYSLEXIA_DICTIONARY, lowerWord)
  THEN << [original    |-> w.word,
           suggestions |-> <<phoneticPreserveCase(w.word,
                               MapGet(DYSLEXIA_DICTIONARY, lowerWord).correction)>>,
           confidence  |-> 95,
           source      |-> "local",
           position    |-> [start |-> w.start, end |-> w.end]] >>
  ELSE IF MapHas(PHONETIC_HOMOPHONES, lowerWord)
  THEN LET homophones == MapGet(PHONETIC_HOMOPHONES, lowerWord).alternatives IN
       << [original    |-> w.word,
           suggestions |-> [j \in 1..Len(homophones) |->
                              phoneticPreserveCase(w.word, homophones[j])],
           confidence  |-> 50,
           source      |-> "local",
           position    |-> [start |-> w.start, end |-> w.end]] >>
  ELSE <<>>

RECURSIVE phoneticAnalyzeLoop(_, _, _)
phoneticAnalyzeLoop(ws, i, acc) ==
  IF i > Len(ws) THEN acc
  ELSE phoneticAnalyzeLoop(ws, i + 1, acc \o phoneticAnalyzeWord(ws[i]))

\* analyzeText of the phonetic engine
analyzeTextLocal(s) == phoneticAnalyzeLoop(phoneticExtractWords(s), 1, <<>>)

---------------------------------------------------------------------------
(* The content script: handleFocusIn, handleFocusOut, handleInput, the     *)
(* debounced performAnalysis, the review modal's "is Correct" button.      *)
(* Two scripts share this code: the status-bar script (unnamed/part_002)   *)
(* and the highlight script (entrypoints/popup/App.tsx); where they        *)
(* differ the action tests `script`.                                       *)

MaxVersions == 2

\* String.prototype.trim
RECURSIVE trim(_)
trim(s) ==
  IF s = <<>> THEN s
  ELSE IF Head(s) = " " THEN trim(Tail(s))
  ELSE IF s[Len(s)] = " " THEN trim(SubSeq(s, 1, Len(s) - 1))
  ELSE s

\* String.prototype.indexOf: the first offset where sub starts, or -1
indexOf(s, sub) ==
  LET hits == {p \in 0..(Len(s) - Len(sub)) :
                 SubSeq(s, p + 1, p + Len(sub)) = sub}
  IN  IF hits = {} THEN -1 ELSE CHOOSE p \in hits : \A q \in hits : p <= q

IsTerminator(c) == c \in {".", "!", "?"}

\* /[^.!?]+[.!?]+/ matches s[p+1..e]: a stretch without terminator, then
\* terminators, both as long as they can be
SentenceMatch(s, p, e) ==
  /\ p < e /\ e <= Len(s)
  /\ ~IsTerminator(s[p + 1])
  /\ IsTerminator(s[e])
  /\ e = Len(s) \/ ~IsTerminator(s[e + 1])
  /\ \A i \in (p + 1)..e : \A j \in (p + 1)..e :
       i < j /\ IsTerminator(s[i]) => IsTerminator(s[j])

\* text.match(/[^.!?]+[.!?]+/g)
RECURSIVE SentenceLoop(_, _, _)
SentenceLoop(s, lastIndex, acc) ==
  LET starts == {p \in lastIndex..Len(s) :
                   \E e \in (p + 1)..Len(s) : SentenceMatch(s, p, e)}
  IN  IF starts = {} THEN acc
      ELSE LET index == CHOOSE p \in starts : \A q \in starts : p <= q
               end   == CHOOSE e \in (index + 1)..Len(s) : SentenceMatch(s, index, e)
           IN  SentenceLoop(s, end, Append(acc, SubSeq(s, index + 1, end)))

SelectSeqIssues(list, lo, hi) ==
  SelectSeq(list, LAMBDA x : x.position.start >= lo /\ x.position.end <= hi)

\* organizeIntoSentences: the value assigned to currentSentences
organizeIntoSentences(s, list) ==
  LET matched   == SentenceLoop(s, 0, <<>>)
      sentences == IF matched = <<>> THEN <<s>> ELSE matched
      mapped    == [k \in 1..Len(sentences) |->
                      LET sentenceStart == indexOf(s, sentences[k])
                          sentenceEnd   == sentenceStart + Len(sentences[k])
                      IN  [text   |-> trim(sentences[k]),
                           issues |-> SelectSeqIssues(list, sentenceStart,
                                                      sentenceEnd)]]
  IN  SelectSeq(mapped, LAMBDA x : Len(x.issues) > 0)

\* the texts the field may hold: one too short to be analysed (2 code
\* units), two with the homophone "to"
CsTexts == {<<"t", "o">>, <<"g", "o", " ", "t", "o">>, <<"t", "o", " ", "g", "o">>}

\* a suggestion of the AI backend for a token: a homophone (yellow)
AiFlag(w) ==
  [original    |-> w.word,
   suggestions |-> << <<"t", "w", "o">> >>,
   confidence  |-> 90,
   source      |-> "ai",
   position    |-> [start |-> w.start, end |-> w.end],
   category    |-> "yellow"]

\* what analyzeWithAI may resolve to for a text: nothing (also on every
\* failure), or a flag on a token.  The prompt lists the validated words as
\* words to ignore: the backend is taken to comply.
AiAnswers(s, ignored) ==
  {<<>>} \cup
  {<<AiFlag(phoneticExtractWords(s)[j])>> :
     j \in {k \in 1..Len(phoneticExtractWords(s)) :
              toLowerCase(phoneticExtractWords(s)[k].word) \notin ignored}}

LowerSet(list) == {toLowerCase(list[i]) : i \in 1..Len(list)}

InitContent ==
  /\ script \in {"statusBar", "highlights"}
  /\ aiReady \in BOOLEAN
  /\ focused = FALSE
  /\ elementText \in CsTexts
  /\ pendingAnalyze = <<>>
  /\ analysisVersion = 0
  /\ lastAnalyzedText = <<>>
  /\ inFlight = {}
  /\ currentSuggestions = <<>>
  /\ shown = <<>>
  /\ currentSentences = <<>>
  /\ currentSentenceIndex = 0
  /\ modalOpen = FALSE
  /\ validatedHomophones = <<>>
  /\ published = <<>>
  /\ completions = <<>>
  /\ TextIdle /\ FlowIdle /\ WordIdle /\ AiIdle /\ DbIdle /\ CsvIdle /\ RvIdle /\ PopIdle /\ FzIdle

\* handleFocusIn on the field
HandleFocusIn ==
  /\ ~focused
  /\ focused' = TRUE
  /\ pendingAnalyze' = IF Len(elementText) > 2 THEN <<elementText>>
                       ELSE pendingAnalyze
  /\ UNCHANGED <<script, aiReady, elementText, analysisVersion,
                 lastAnalyzedText, inFlight, currentSuggestions, shown,
                 currentSentences, currentSentenceIndex, modalOpen,
                 validatedHomophones, published, completions>>
  /\ UNCHANGED <<textVars, flowVars, wordVars, aiVars, dbVars, csvVars, rvVars, popVars, fzVars>>

\* handleFocusOut and its 300 ms timer, the focus having left the field
HandleFocusOut ==
  /\ focused
  /\ focused' = FALSE
  /\ lastAnalyzedText' = <<>>
  /\ pendingAnalyze' = <<>>
  /\ shown' = <<>>
  /\ currentSuggestions' = IF script = "highlights" THEN <<>>
                           ELSE currentSuggestions
  /\ UNCHANGED <<script, aiReady, elementText, analysisVersion, inFlight,
                 currentSentences, currentSentenceIndex, modalOpen,
                 validatedHomophones, published, completions>>
  /\ UNCHANGED <<textVars, flowVars, wordVars, aiVars, dbVars, csvVars, rvVars, popVars, fzVars>>

\* handleInput: the user has changed the text of the field to t
HandleInput(t) ==
  /\ focused
  /\ t # elementText
  /\ elementText' = t
  /\ IF Len(t) > 2
     THEN /\ pendingAnalyze' = <<t>>
          /\ UNCHANGED <<lastAnalyzedText, shown, currentSuggestions>>
     ELSE /\ lastAnalyzedText' = <<>>
          /\ shown' = <<>>
          /\ currentSuggestions' = IF script = "highlights" THEN <<>>
                                   ELSE currentSuggestions
          /\ UNCHANGED pendingAnalyze
  /\ UNCHANGED <<script, aiReady, focused, analysisVersion, inFlight,
                 currentSentences, currentSentenceIndex, modalOpen,
                 validatedHomophones, published, completions>>
  /\ UNCHANGED <<textVars, flowVars, wordVars, aiVars, dbVars, csvVars, rvVars, popVars, fzVars>>

\* the sentence objects of one organizeIntoSentences: id tells the objects
\* of one analysis from those of another, and one sentence from the next
Tagged(sentences, version) ==
  [k \in 1..Len(sentences) |->
     [text   |-> sentences[k].text,
      issues |-> sentences[k].issues,
      id     |-> [gen |-> version,
                  key |-> sentences[k].issues[1].position.start]]]

\* the last lines of performAnalysis: currentSuggestions = suggestions,
\* then the status bar (organizeIntoSentences, updateStatusBar or
\* hideStatusBar) or the highlights (renderHighlights or clearAllHighlights,
\* which both empty currentSuggestions).  inv is the invocation: its
\* version, its text, the text of the field when it was invoked.
Publish(inv, list, current) ==
  /\ published' = << [version     |-> inv.version,
                      text        |-> inv.text,
                      startText   |-> inv.startText,
                      elementText |-> elementText,
                      validated   |-> LowerSet(validatedHomophones),
                      suggestions |-> list] >>
  /\ completions' = Append(completions,
                      [version |-> inv.version, latest |-> current,
                       outcome |-> "published"])
  /\ IF script = "statusBar"
     THEN /\ currentSuggestions' = list
          /\ currentSentences' =
               IF Len(list) > 0
               THEN Tagged(organizeIntoSentences(inv.text, list), inv.version)
               ELSE currentSentences
          /\ shown' = IF Len(list) > 0 /\ ~focused THEN shown ELSE list
     ELSE /\ currentSuggestions' = <<>>
          /\ shown' = list
          /\ UNCHANGED currentSentences

\* the early return on a stale result
Discard(inv, current) ==
  /\ completions' = Append(completions,
                      [version |-> inv.version, latest |-> current,
                       outcome |-> "discarded"])
  /\ UNCHANGED <<currentSuggestions, currentSentences, shown, published>>

\* performAnalysis without the version check
Finish_NoVersionCheck(inv, aiList, current) ==
  LET list == IF aiList = <<>> THEN analyzeTextLocal(inv.text) ELSE aiList
  IN  IF script = "highlights" /\ elementText # inv.text
      THEN Discard(inv, current)
      ELSE Publish(inv, list, current)

\* performAnalysis from the local fallback to its end: the fallback, the
\* staleness checks (current is analysisVersion at that point), the
\* publication
Finish(inv, aiList, current) ==
  LET list == IF aiList = <<>> THEN analyzeTextLocal(inv.text) ELSE aiList
  IN  IF inv.version # current THEN Discard(inv, current)
      ELSE IF script = "highlights" /\ elementText # inv.text
      THEN Discard(inv, current)
      ELSE Publish(inv, list, current)

\* the invocation performAnalysis(s, element) that takes version v
Invocation(v, s) ==
  [version   |-> v,
   text      |-> s,
   startText |-> elementText,
   ignored   |-> LowerSet(validatedHomophones)]

\* the debounce timer fires: performAnalysis(text, element) up to its
\* await, or to its end when no AI backend is ready
DebounceFires ==
  /\ pendingAnalyze # <<>>
  /\ analysisVersion < MaxVersions
  /\ pendingAnalyze' = <<>>
  /\ LET s == pendingAnalyze[1] IN
     IF s = lastAnalyzedText
     THEN UNCHANGED <<analysisVersion, lastAnalyzedText, inFlight,
                      currentSuggestions, currentSentences, shown, published,
                      completions>>
     ELSE /\ analysisVersion' = analysisVersion + 1
          /\ lastAnalyzedText' = s
          /\ IF aiReady
             THEN /\ inFlight' = inFlight \cup
                                    {Invocation(analysisVersion + 1, s)}
                  /\ UNCHANGED <<currentSuggestions, currentSentences, shown,
                                 published, completions>>
             ELSE /\ Finish(Invocation(analysisVersion + 1, s), <<>>,
                            analysisVersion + 1)
                  /\ UNCHANGED inFlight
  /\ UNCHANGED <<script, aiReady, focused, elementText,
                 currentSentenceIndex, modalOpen, validatedHomophones>>
  /\ UNCHANGED <<textVars, flowVars, wordVars, aiVars, dbVars, csvVars, rvVars, popVars, fzVars>>

\* analyzeWithAI resolves for an invocation, which runs to its end
AnalysisCompletes ==
  /\ \E inv \in inFlight :
       /\ inFlight' = inFlight \ {inv}
       /\ \E aiList \in AiAnswers(inv.text, inv.ignored) :
            Finish(inv, aiList, analysisVersion)
  /\ UNCHANGED <<script, aiReady, focused, elementText, pendingAnalyze,
                 analysisVersion, lastAnalyzedText,
                 currentSentenceIndex, modalOpen, validatedHomophones>>
  /\ UNCHANGED <<textVars, flowVars, wordVars, aiVars, dbVars, csvVars, rvVars, popVars, fzVars>>

\* a click on the status bar: openReviewModal
OpenReviewModal ==
  /\ script = "statusBar"
  /\ shown # <<>>
  /\ ~modalOpen
  /\ currentSentences # <<>>
  /\ currentSentenceIndex' = 0
  /\ pendingChanges' = <<>>
  /\ targetElement' = IF focused THEN "field" ELSE "null"
  /\ modalOpen' = TRUE
  /\ rendered' = <<currentSentences[1]>>
  /\ UNCHANGED <<script, aiReady, focused, elementText, pendingAnalyze,
                 analysisVersion, lastAnalyzedText, inFlight,
                 currentSuggestions, shown, currentSentences,
                 validatedHomophones, published, completions>>
  /\ UNCHANGED <<acceptTimers, reanalysis, acceptedChanges, appliedChanges,
                 lastApply, clicks>>
  /\ UNCHANGED <<textVars, flowVars, wordVars, aiVars, dbVars, csvVars, popVars, fzVars>>

\* addToValidatedHomophones: the value assigned to
\* settings.ai.validatedHomophones
addToValidatedHomophones(w) ==
  IF trim(w) = <<>> THEN validatedHomophones
  ELSE IF toLowerCase(w) \in LowerSet(validatedHomophones)
       THEN validatedHomophones
       ELSE Append(validatedHomophones, trim(w))

\* dismissIssue(sentence.issues[idx]): the sentences left
dismissIssue(idx) ==
  LET sentence == currentSentences[currentSentenceIndex + 1]
      issues   == [k \in 1..(Len(sentence.issues) - 1) |->
                     IF k < idx THEN sentence.issues[k]
                     ELSE sentence.issues[k + 1]]
  IN  IF issues = <<>>
      THEN [k \in 1..(Len(currentSentences) - 1) |->
              IF k < currentSentenceIndex + 1 THEN currentSentences[k]
              ELSE currentSentences[k + 1]]
      ELSE [currentSentences EXCEPT ![currentSentenceIndex + 1].issues = issues]

\* a click on `"word" is Correct` for issue idx of the sentence on display:
\* addToValidatedHomophones(original), then dismissIssue; no change is
\* queued when it closes the modal, so applyAllChanges returns at once
ConfirmCorrect(idx) ==
  /\ script = "statusBar"
  /\ modalOpen
  /\ currentSentenceIndex < Len(currentSentences)
  /\ idx \in 1..Len(currentSentences[currentSentenceIndex + 1].issues)
  /\ LET issue == currentSentences[currentSentenceIndex + 1].issues[idx] IN
     /\ "category" \in DOMAIN issue
     /\ issue.category = "yellow"
     /\ validatedHomophones' = addToValidatedHomophones(issue.original)
  /\ currentSentences' = dismissIssue(idx)
  /\ currentSentenceIndex' =
       IF currentSentenceIndex >= Len(dismissIssue(idx))
       THEN Max(0, Len(dismissIssue(idx)) - 1)
       ELSE currentSentenceIndex
  /\ IF dismissIssue(idx) = <<>>
     THEN modalOpen' = FALSE /\ shown' = <<>> /\ UNCHANGED rendered
     ELSE /\ rendered' =
               << dismissIssue(idx)[
                    (IF currentSentenceIndex >= Len(dismissIssue(idx))
                     THEN Max(0, Len(dismissIssue(idx)) - 1)
                     ELSE currentSentenceIndex) + 1] >>
          /\ UNCHANGED <<modalOpen, shown>>
  /\ UNCHANGED <<script, aiReady, focused, elementText, pendingAnalyze,
                 analysisVersion, lastAnalyzedText, inFlight,
                 currentSuggestions, published, completions>>
  /\ UNCHANGED <<pendingChanges, targetElement, acceptTimers, reanalysis,
                 acceptedChanges, appliedChanges, lastApply, clicks>>
  /\ UNCHANGED <<textVars, flowVars, wordVars, aiVars, dbVars, csvVars, popVars, fzVars>>

NextContent ==
  \/ HandleFocusIn
  \/ HandleFocusOut
  \/ \E t \in CsTexts : HandleInput(t)
  \/ DebounceFires
  \/ AnalysisCompletes
  \/ OpenReviewModal
  \/ \E idx \in 1..2 : ConfirmCorrect(idx)

SpecContent == InitContent /\ [][NextContent]_vars

Published == published # <<>>

\* C15 - validated words are not flagged again: an analysis published
\* after the user has confirmed a homophone as correct holds no suggestion
\* whose original is that word in any casing, be it the AI backend's or the
\* local dictionary's.
C15_ValidatedNotFlagged ==
  Published =>
    \A k \in 1..Len(published[1].suggestions) :
      toLowerCase(published[1].suggestions[k].original)
        \notin published[1].validated

\* C19 - staleness: the status-bar script publishes no analysis whose text
\* changed in the field between the invocation of performAnalysis and its
\* completion.
C19_NoStalePublication ==
  script = "statusBar" /\ Published =>
    published[1].elementText = published[1].startText

\* C20 - version ordering: an invocation publishes only if its version is
\* analysisVersion when its analysis completes, and is discarded otherwise;
\* the versions published increase, whatever order the analyses complete
\* in.
C20_VersionOrdering ==
  /\ \A k \in 1..Len(completions) :
       completions[k].outcome = "published"
         => completions[k].version = completions[k].latest
  /\ \A k \in 1..Len(completions) :
       completions[k].version # completions[k].latest
         => completions[k].outcome = "discarded"
  /\ \A k, l \in 1..Len(completions) :
       /\ k < l
       /\ completions[k].outcome = "published"
       /\ completions[l].outcome = "published"
       => completions[k].version < completions[l].version

\* two overlapping invocations: the newer completed first and published,
\* the older completed after it and was discarded
C20_Witness ==
  /\ Len(completions) = 2
  /\ completions[1].version = 2
  /\ completions[1].outcome = "published"
  /\ completions[2].version = 1
  /\ completions[2].outcome = "discarded"
  /\ Published
  /\ published[1].version = 2

---------------------------------------------------------------------------
\* utils/debounce.ts: debounce and debounceWithCancel.  The host keeps the
\* timers; a timer's callback runs no earlier than its due time and may run
\* later.

MaxTime == 4
MaxEvents == 5

Delays == {1, 2}
DebounceArgs == {"a", "b"}

Event(kind, args) == [kind |-> kind, time |-> now, args |-> args]

\* setTimeout(() => { fn.apply(this, args); timeoutId = null }, delay)
setTimeout(args) == [id |-> nextTimerId, due |-> now + delay, args |-> args]

\* a clearTimeout that leaves the timer in place
clearTimeout_Noop(id) == timers

\* clearTimeout(id): the timer is removed; an id that is not pending is
\* ignored
clearTimeout(id) == {t \in timers : t.id # id}

InitDebounce ==
  /\ wrapper \in {"debounce", "debounceWithCancel"}
  /\ delay \in Delays
  /\ now = 0
  /\ timers = {}
  /\ timeoutId = 0
  /\ nextTimerId = 1
  /\ history = <<>>
  /\ TextIdle /\ FlowIdle /\ WordIdle /\ AiIdle /\ CsIdle /\ CsvIdle /\ RvIdle /\ PopIdle /\ FzIdle

\* time passes
Tick ==
  /\ now < MaxTime
  /\ now' = now + 1
  /\ UNCHANGED <<wrapper, delay, timers, timeoutId, nextTimerId, history>>
  /\ UNCHANGED <<textVars, flowVars, wordVars, aiVars, csVars, csvVars, rvVars, popVars, fzVars>>

\* debounced(...args)
CallDebounced(args) ==
  /\ Len(history) < MaxEvents
  /\ timers' = (IF timeoutId # 0 THEN clearTimeout(timeoutId) ELSE timers)
                 \cup {setTimeout(args)}
  /\ timeoutId' = nextTimerId
  /\ nextTimerId' = nextTimerId + 1
  /\ history' = Append(history, Event("call", args))
  /\ UNCHANGED <<wrapper, delay, now>>
  /\ UNCHANGED <<textVars, flowVars, wordVars, aiVars, csVars, csvVars, rvVars, popVars, fzVars>>

\* a cancel that forgets the timer without clearing it
CancelledTimers_Forgotten == timers

\* the timers left by debounced.cancel()
CancelledTimers ==
  IF timeoutId # 0 THEN clearTimeout(timeoutId) ELSE timers

\* debounced.cancel()
Cancel ==
  /\ wrapper = "debounceWithCancel"
  /\ Len(history) < MaxEvents
  /\ timers' = CancelledTimers
  /\ timeoutId' = 0
  /\ history' = Append(history, Event("cancel", "-"))
  /\ UNCHANGED <<delay, wrapper, now, nextTimerId>>
  /\ UNCHANGED <<textVars, flowVars, wordVars, aiVars, csVars, csvVars, rvVars, popVars, fzVars>>

\* the host runs the callback of a due timer: fn.apply(this, args), then
\* timeoutId = null unless fn threw
TimerFires ==
  /\ Len(history) < MaxEvents
  /\ \E t \in timers, threw \in BOOLEAN :
       /\ t.due <= now
       /\ timers' = timers \ {t}
       /\ history' = Append(history, Event("exec", t.args))
       /\ timeoutId' = IF threw THEN timeoutId ELSE 0
  /\ UNCHANGED <<wrapper, delay, now, nextTimerId>>
  /\ UNCHANGED <<textVars, flowVars, wordVars, aiVars, csVars, csvVars, rvVars, popVars, fzVars>>

NextDebounce ==
  \/ Tick
  \/ \E args \in DebounceArgs : CallDebounced(args)
  \/ Cancel
  \/ TimerFires

SpecDebounce == InitDebounce /\ [][NextDebounce]_vars

LastEvent == history[Len(history)]

\* the execution the last call scheduled is pending, and nothing else
PendingFor(e) ==
  /\ timeoutId # 0
  /\ timers = {[id |-> timeoutId, due |-> e.time + delay, args |-> e.args]}

\* C16 - debounce: fn executes only as the successor of a call, never of
\* another execution or of a call that a later call replaced, with that
\* call's arguments and not before delay has elapsed since it; while the
\* last call has not executed, exactly its execution is pending.
C16_Debounce ==
  /\ \A k \in 1..Len(history) :
       history[k].kind = "exec" =>
         /\ k > 1
         /\ history[k - 1].kind = "call"
         /\ history[k].args = history[k - 1].args
         /\ history[k].time >= history[k - 1].time + delay
  /\ history # <<>> /\ LastEvent.kind = "call" => PendingFor(LastEvent)
  /\ Cardinality(timers) <= 1

\* a burst of three calls less than delay apart, then one execution, with
\* the arguments of the last call, delay after it
C16_Witness ==
  /\ Len(history) = 4
  /\ \A k \in 1..3 : history[k].kind = "call"
  /\ history[2].time < history[1].time + delay
  /\ history[3].time < history[2].time + delay
  /\ history[1].args # history[3].args
  /\ history[4].kind = "exec"
  /\ history[4].args = history[3].args
  /\ history[4].time = history[3].time + delay
  /\ timers = {}

CancelStep ==
  /\ Len(history') = Len(history) + 1
  /\ history'[Len(history')].kind = "cancel"

\* C17 - cancel: after cancel() no timer is pending and the next event is
\* never an execution; cancel with nothing pending leaves the timers and
\* a null timeoutId as they are; a call after cancel schedules exactly one
\* execution, due delay after that call.
C17_Cancel ==
  /\ [](\A k \in 1..Len(history) :
          history[k].kind = "cancel" =>
            /\ k = Len(history) => timers = {} /\ timeoutId = 0
            /\ k < Len(history) =>
                 /\ history[k + 1].kind # "exec"
                 /\ k + 1 = Len(history) /\ history[k + 1].kind = "call"
                      => PendingFor(history[k + 1])
                 /\ k + 2 <= Len(history) /\ history[k + 1].kind = "call"
                    /\ history[k + 2].kind = "exec"
                      => history[k + 2].time >= history[k + 1].time + delay)
  /\ [][CancelStep /\ timers = {}
          => timers' = timers /\ (timeoutId = 0 => timeoutId' = 0)]_vars

\* a call, a cancel while its execution was pending, a fresh call, a
\* cancel with nothing pending after its execution
C17_Witness ==
  /\ Len(history) = 5
  /\ history[1].kind = "call"
  /\ history[2].kind = "cancel"
  /\ history[2].time < history[1].time + delay
  /\ history[3].kind = "call"
  /\ history[4].kind = "exec"
  /\ history[4].time = history[3].time + delay
  /\ history[5].kind = "cancel"
  /\ timers = {}

---------------------------------------------------------------------------
\* options page: the dictionary handlers, handleExportCSV, handleImportCSV

MaxTerms == 2

\* words typed into the inputs: a, "a,b", 'n, "a b"
CsvWords ==
  { <<"a">>, <<"a", ",", "b">>, <<"'", "n">>, <<"a", " ", "b">> }

EmptyDictionaries ==
  [customTerms |-> <<>>, verifiedEntities |-> <<>>,
   validatedHomophones |-> <<>>]

Lists == {"customTerms", "verifiedEntities", "validatedHomophones"}

TermCount(d) ==
  Len(d.customTerms) + Len(d.verifiedEntities) + Len(d.validatedHomophones)

\* Array.prototype.includes
includes(list, w) == \E k \in 1..Len(list) : list[k] = w

\* Array.prototype.filter(t => t !== term)
RECURSIVE without(_, _)
without(list, term) ==
  IF list = <<>> THEN <<>>
  ELSE IF Head(list) = term THEN without(Tail(list), term)
  ELSE <<Head(list)>> \o without(Tail(list), term)

\* String.prototype.split on a one-character separator
RECURSIVE split(_, _)
split(s, sep) ==
  LET hits == {p \in 1..Len(s) : s[p] = sep}
  IN  IF hits = {} THEN <<s>>
      ELSE LET p == CHOOSE q \in hits : \A r \in hits : q <= r
           IN  <<SubSeq(s, 1, p - 1)>> \o split(SubSeq(s, p + 1, Len(s)), sep)

\* Array.prototype.join
RECURSIVE join(_, _)
join(rows, sep) ==
  IF rows = <<>> THEN <<>>
  ELSE IF Len(rows) = 1 THEN rows[1]
  ELSE rows[1] \o sep \o join(Tail(rows), sep)

IsQuote(c) == c \in {"\"", "'"}

\* p.replace(/^["']|["']$/g, '')
stripQuotes(p) ==
  LET q == IF p # <<>> /\ IsQuote(Head(p)) THEN Tail(p) ELSE p
  IN  IF q # <<>> /\ IsQuote(q[Len(q)]) THEN SubSeq(q, 1, Len(q) - 1) ELSE q

\* rows.push(`"${word}",type`) for each word of a list
ExportRows(list, type) ==
  [k \in 1..Len(list) |-> <<"\"">> \o list[k] \o <<"\"", ",">> \o type]

TypeWord == <<"w", "o", "r", "d">>
TypeEntity == <<"e", "n", "t", "i", "t", "y">>
TypeHomophone == <<"h", "o", "m", "o", "p", "h", "o", "n", "e">>
EntityTypes ==
  { TypeEntity, <<"n", "a", "m", "e">>,
    <<"c", "o", "m", "p", "a", "n", "y">>,
    <<"a", "c", "r", "o", "n", "y", "m">> }
HeaderRow == TypeWord \o <<",">> \o <<"t", "y", "p", "e">>

\* the text handleExportCSV writes
exportCSV(d) ==
  join(<<HeaderRow>> \o ExportRows(d.customTerms, TypeWord)
         \o ExportRows(d.verifiedEntities, TypeEntity)
         \o ExportRows(d.validatedHomophones, TypeHomophone),
       <<"\n">>)

\* text.split('\n').filter(line => line.trim())
csvLines(file) ==
  SelectSeq(split(file, "\n"), LAMBDA l : trim(l) # <<>>)

\* line.split(',').map(p => p.trim().replace(/^["']|["']$/g, ''))
csvParts(l) ==
  LET raw == split(l, ",")
  IN  [k \in 1..Len(raw) |-> stripQuotes(trim(raw[k]))]

\* the body of the loop of handleImportCSV for one line: acc holds newWords,
\* newEntities, newHomophones; d the dictionaries before the import
importLine(acc, l, d) ==
  LET parts == csvParts(trim(l))
      w     == parts[1]
      hasType == Len(parts) >= 2
      type  == IF hasType THEN toLowerCase(parts[2]) ELSE <<>>
  IN  IF trim(l) = <<>> \/ w = <<>> THEN acc
      ELSE IF hasType /\ type \in EntityTypes
      THEN IF ~includes(acc.verifiedEntities, w)
              /\ ~includes(d.verifiedEntities, w)
           THEN [acc EXCEPT !.verifiedEntities = Append(@, w)]
           ELSE acc
      ELSE IF hasType /\ type = TypeHomophone
      THEN IF ~includes(acc.validatedHomophones, w)
              /\ ~includes(d.validatedHomophones, w)
           THEN [acc EXCEPT !.validatedHomophones = Append(@, w)]
           ELSE acc
      ELSE IF ~includes(acc.customTerms, w) /\ ~includes(d.customTerms, w)
           THEN [acc EXCEPT !.customTerms = Append(@, w)]
           ELSE acc

RECURSIVE importLoop(_, _, _, _)
importLoop(acc, lines, k, d) ==
  IF k > Len(lines) THEN acc
  ELSE importLoop(importLine(acc, lines[k], d), lines, k + 1, d)

\* the dictionaries after handleImportCSV read the file; a file without a
\* line throws on lines[0] and leaves them as they are
importCSV(file, d) ==
  LET lines == csvLines(file)
  IN  IF lines = <<>> THEN d
      ELSE LET startIndex ==
                 IF indexOf(toLowerCase(lines[1]), TypeWord) >= 0
                 THEN 1 ELSE 0
               new == importLoop(EmptyDictionaries, lines, startIndex + 1, d)
           IN  [customTerms |-> d.customTerms \o new.customTerms,
                verifiedEntities |->
                  d.verifiedEntities \o new.verifiedEntities,
                validatedHomophones |->
                  d.validatedHomophones \o new.validatedHomophones]

InitCsv ==
  /\ dictionaries = EmptyDictionaries
  /\ csvFile = <<>>
  /\ exportedFrom = EmptyDictionaries
  /\ roundTrip = <<>>
  /\ TextIdle /\ FlowIdle /\ WordIdle /\ AiIdle /\ CsIdle /\ DbIdle /\ RvIdle /\ PopIdle /\ FzIdle

\* addCustomTerm and addVerifiedEntity: the trimmed input is appended
AddTerm(list, w) ==
  /\ list \in {"customTerms", "verifiedEntities"}
  /\ csvFile = <<>>
  /\ TermCount(dictionaries) < MaxTerms
  /\ trim(w) # <<>>
  /\ dictionaries' = [dictionaries EXCEPT ![list] = Append(@, trim(w))]
  /\ UNCHANGED <<csvFile, exportedFrom, roundTrip>>
  /\ UNCHANGED <<textVars, flowVars, wordVars, aiVars, csVars, dbVars, rvVars, popVars, fzVars>>

\* addToValidatedHomophones: appended unless present in some casing
AddValidatedHomophone(w) ==
  /\ csvFile = <<>>
  /\ TermCount(dictionaries) < MaxTerms
  /\ trim(w) # <<>>
  /\ toLowerCase(w) \notin LowerSet(dictionaries.validatedHomophones)
  /\ dictionaries' =
       [dictionaries EXCEPT !.validatedHomophones = Append(@, trim(w))]
  /\ UNCHANGED <<csvFile, exportedFrom, roundTrip>>
  /\ UNCHANGED <<textVars, flowVars, wordVars, aiVars, csVars, dbVars, rvVars, popVars, fzVars>>

\* removeCustomTerm, removeVerifiedEntity, removeValidatedHomophone
RemoveTerm(list, w) ==
  /\ roundTrip = <<>>
  /\ includes(dictionaries[list], w)
  /\ dictionaries' = [dictionaries EXCEPT ![list] = without(@, w)]
  /\ UNCHANGED <<csvFile, exportedFrom, roundTrip>>
  /\ UNCHANGED <<textVars, flowVars, wordVars, aiVars, csVars, dbVars, rvVars, popVars, fzVars>>

\* handleExportCSV
ExportCSV ==
  /\ csvFile = <<>>
  /\ csvFile' = exportCSV(dictionaries)
  /\ exportedFrom' = dictionaries
  /\ UNCHANGED <<dictionaries, roundTrip>>
  /\ UNCHANGED <<textVars, flowVars, wordVars, aiVars, csVars, dbVars, rvVars, popVars, fzVars>>

\* handleImportCSV with the exported file
ImportCSV ==
  /\ csvFile # <<>>
  /\ roundTrip = <<>>
  /\ dictionaries' = importCSV(csvFile, dictionaries)
  /\ roundTrip' = << [into |-> dictionaries,
                      result |-> importCSV(csvFile, dictionaries)] >>
  /\ UNCHANGED <<csvFile, exportedFrom>>
  /\ UNCHANGED <<textVars, flowVars, wordVars, aiVars, csVars, dbVars, rvVars, popVars, fzVars>>

NextCsv ==
  \/ \E list \in Lists, w \in CsvWords : AddTerm(list, w)
  \/ \E w \in CsvWords : AddValidatedHomophone(w)
  \/ \E list \in Lists, w \in CsvWords : RemoveTerm(list, w)
  \/ ExportCSV
  \/ ImportCSV

SpecCsv == InitCsv /\ [][NextCsv]_vars

\* C18 - CSV round trip: importing the exported file into empty
\* dictionaries gives the three lists the file was exported from, with the
\* same words in the same lists and the same order, words with a comma
\* included.
C18_CsvRoundTrip ==
  roundTrip # <<>> /\ roundTrip[1].into = EmptyDictionaries
    => roundTrip[1].result = exportedFrom

---------------------------------------------------------------------------
\* the user has stopped editing: the field has the focus, no debounce timer
\* is pending and no analysis is in flight, so nothing runs until the next
\* event
Settled ==
  /\ focused
  /\ pendingAnalyze = <<>>
  /\ inFlight = {}

\* C21 - eventual analysis of the final text: once the user has stopped
\* editing a focused field of more than 2 characters and every analysis has
\* returned, the highlight script's last publication is that of the field's
\* text, and its suggestions are the ones on display.
C21_FinalTextAnalysed ==
  script = "highlights" /\ Settled /\ Len(elementText) > 2 =>
    /\ Published
    /\ published[1].text = elementText
    /\ shown = published[1].suggestions

---------------------------------------------------------------------------
\* The review modal of the status-bar script: navigateSentence, the Accept
\* and Ignore buttons of renderCurrentSentence, acceptSuggestion,
\* ignoreSuggestion, closeReviewModal, applyAllChanges.

MaxClicks == 2

\* to. to.   go to.
ReviewTexts ==
  { <<"t", "o", ".", " ", "t", "o", ".">>,
    <<"g", "o", " ", "t", "o", ".">> }

\* the first offset of a whole-word, case-insensitive match of w in t, or -1
regexIndex(t, w) ==
  LET hits == {p \in 0..Len(t) : WordMatchesAt(t, w, p)}
  IN  IF hits = {} THEN -1 ELSE CHOOSE p \in hits : \A q \in hits : p <= q

\* t with the Len(w) characters at offset p replaced
spliceText(t, p, w, replacement) ==
  SubSeq(t, 1, p) \o replacement \o SubSeq(t, p + Len(w) + 1, Len(t))

\* the offset at which applyAllChanges replaces a change in t: that of the
\* regular expression, else that of indexOf, else -1
changeIndex(t, c) ==
  IF regexIndex(t, c.original) >= 0 THEN regexIndex(t, c.original)
  ELSE indexOf(t, c.original)

\* the forEach of applyAllChanges: currentText after the changes from k on
RECURSIVE applyLoop(_, _, _)
applyLoop(t, changes, k) ==
  IF k > Len(changes) THEN t
  ELSE LET p == changeIndex(t, changes[k])
       IN  applyLoop(IF p >= 0
                     THEN spliceText(t, p, changes[k].original,
                                     changes[k].replacement)
                     ELSE t,
                     changes, k + 1)

\* the changes the forEach found in the text, in order
RECURSIVE appliedLoop(_, _, _)
appliedLoop(t, changes, k) ==
  IF k > Len(changes) THEN <<>>
  ELSE LET p == changeIndex(t, changes[k])
       IN  IF p >= 0
           THEN <<changes[k]>> \o
                appliedLoop(spliceText(t, p, changes[k].original,
                                       changes[k].replacement),
                            changes, k + 1)
           ELSE appliedLoop(t, changes, k + 1)

\* sentence.text.replace(new RegExp(`\\b${original}\\b`, 'i'), replacement)
replaceWord(t, w, replacement) ==
  IF regexIndex(t, w) >= 0
  THEN spliceText(t, regexIndex(t, w), w, replacement)
  ELSE t

\* the entry of pendingChanges for issue idx of the rendered sentence: the
\* button's data-original and data-replacement; where, gen are history (the
\* span that was flagged and the analysis that flagged it)
ChangeOf(sentence, idx) ==
  [original    |-> sentence.issues[idx].original,
   replacement |-> sentence.issues[idx].suggestions[1],
   where       |-> sentence.issues[idx].position,
   gen         |-> sentence.id.gen]

\* sentence.issues.filter(i => i !== issue), then the splice of a sentence
\* left without issue: idx is the place of issue in the current sentence, 0
\* when it is not one of its issues
removeIssue(sentences, index, idx) ==
  LET sentence == sentences[index + 1]
      issues   == IF idx = 0 THEN sentence.issues
                  ELSE [k \in 1..(Len(sentence.issues) - 1) |->
                          IF k < idx THEN sentence.issues[k]
                          ELSE sentence.issues[k + 1]]
  IN  IF issues = <<>>
      THEN [k \in 1..(Len(sentences) - 1) |->
              IF k < index + 1 THEN sentences[k] ELSE sentences[k + 1]]
      ELSE [sentences EXCEPT ![index + 1].issues = issues]

\* currentSentenceIndex after the splice
clampIndex(index, sentences) ==
  IF index >= Len(sentences) THEN Max(0, Len(sentences) - 1) ELSE index

\* the place in the current sentence of the issue object
\* sentence.issues[idx], sentence being the object with identity id: 0 when
\* that object is not the current sentence or has no issue idx
placeOf(id, idx) ==
  IF /\ currentSentenceIndex < Len(currentSentences)
     /\ currentSentences[currentSentenceIndex + 1].id = id
     /\ idx <= Len(currentSentences[currentSentenceIndex + 1].issues)
  THEN idx ELSE 0

\* closeReviewModal and its applyAllChanges, changes being pendingChanges
\* at that point and hide telling whether hideStatusBar follows.  With
\* changes and an element: the text is replaced, element.focus() and the
\* input event run handleFocusIn and handleInput, the queue is emptied and
\* the re-analysis timer is started.
closeReviewModal(changes, hide) ==
  /\ modalOpen' = FALSE
  /\ IF changes = <<>> \/ (targetElement = "null" /\ ~focused)
     THEN /\ pendingChanges' = changes
          /\ shown' = IF hide THEN <<>> ELSE shown
          /\ UNCHANGED <<elementText, focused, pendingAnalyze,
                         lastAnalyzedText, targetElement, reanalysis,
                         appliedChanges, lastApply>>
     ELSE LET newText == applyLoop(elementText, changes, 1) IN
          /\ elementText' = newText
          /\ focused' = TRUE
          /\ pendingAnalyze' = IF Len(newText) > 2 THEN <<newText>>
                               ELSE pendingAnalyze
          /\ shown' = IF hide \/ Len(newText) <= 2 THEN <<>> ELSE shown
          /\ lastAnalyzedText' = <<>>
          /\ pendingChanges' = <<>>
          /\ targetElement' = "null"
          /\ reanalysis' = <<newText>>
          /\ appliedChanges' =
               appliedChanges \o appliedLoop(elementText, changes, 1)
          /\ lastApply' = << [textBefore |-> elementText,
                              changes    |-> changes,
                              textAfter  |-> newText,
                              analysed   |-> published] >>

\* what a click that only navigates or starts a timer leaves alone
reviewFrame ==
  <<script, aiReady, focused, elementText, pendingAnalyze, analysisVersion,
    lastAnalyzedText, inFlight, currentSuggestions, shown, currentSentences,
    modalOpen, validatedHomophones, published, completions>>

\* the state after a publication for a focused field with text t
InitReview ==
  /\ script = "statusBar"
  /\ aiReady = FALSE
  /\ focused = TRUE
  /\ elementText \in ReviewTexts
  /\ pendingAnalyze = <<>>
  /\ analysisVersion = 1
  /\ lastAnalyzedText = elementText
  /\ inFlight = {}
  /\ currentSuggestions = analyzeTextLocal(elementText)
  /\ shown = analyzeTextLocal(elementText)
  /\ currentSentences =
       Tagged(organizeIntoSentences(elementText,
                                    analyzeTextLocal(elementText)), 1)
  /\ currentSentenceIndex = 0
  /\ modalOpen = FALSE
  /\ validatedHomophones = <<>>
  /\ published = << [version     |-> 1,
                     text        |-> elementText,
                     startText   |-> elementText,
                     elementText |-> elementText,
                     validated   |-> {},
                     suggestions |-> analyzeTextLocal(elementText)] >>
  /\ completions = << [version |-> 1, latest |-> 1,
                       outcome |-> "published"] >>
  /\ RvIdle /\ PopIdle /\ FzIdle
  /\ TextIdle /\ FlowIdle /\ WordIdle /\ AiIdle /\ DbIdle /\ CsvIdle /\ PopIdle /\ FzIdle

\* a click on Previous (-1) or Next (1)
NavigateSentence(direction) ==
  /\ modalOpen
  /\ clicks < MaxClicks
  /\ clicks' = clicks + 1
  /\ currentSentenceIndex' =
       Max(0, Min(Len(currentSentences) - 1,
                  currentSentenceIndex + direction))
  /\ rendered' =
       IF currentSentences = <<>> THEN <<>>
       ELSE << currentSentences[
                 Max(0, Min(Len(currentSentences) - 1,
                            currentSentenceIndex + direction)) + 1] >>
  /\ UNCHANGED <<pendingChanges, targetElement, acceptTimers, reanalysis,
                 acceptedChanges, appliedChanges, lastApply>>
  /\ UNCHANGED reviewFrame
  /\ UNCHANGED <<textVars, flowVars, wordVars, aiVars, dbVars, csvVars, popVars, fzVars>>

\* a click on the Accept button of issue idx of the rendered sentence: the
\* 300 ms timer is started
AcceptClick(idx) ==
  /\ modalOpen
  /\ clicks < MaxClicks
  /\ rendered # <<>>
  /\ idx \in 1..Len(rendered[1].issues)
  /\ clicks' = clicks + 1
  /\ acceptTimers' =
       Append(acceptTimers,
              [id |-> rendered[1].id, idx |-> idx,
               change |-> ChangeOf(rendered[1], idx)])
  /\ acceptedChanges' = Append(acceptedChanges, ChangeOf(rendered[1], idx))
  /\ UNCHANGED <<pendingChanges, targetElement, reanalysis, rendered,
                 appliedChanges, lastApply>>
  /\ UNCHANGED <<reviewFrame, currentSentenceIndex>>
  /\ UNCHANGED <<textVars, flowVars, wordVars, aiVars, dbVars, csvVars, popVars, fzVars>>

\* the review of an issue ends: the modal closes when no sentence is left,
\* else the current sentence is rendered
ReviewStep(sentences, changes) ==
  /\ currentSentences' = sentences
  /\ currentSentenceIndex' = clampIndex(currentSentenceIndex, sentences)
  /\ IF sentences = <<>>
     THEN /\ closeReviewModal(changes, TRUE)
          /\ UNCHANGED rendered
     ELSE /\ rendered' =
               <<sentences[clampIndex(currentSentenceIndex, sentences) + 1]>>
          /\ pendingChanges' = changes
          /\ UNCHANGED <<modalOpen, elementText, focused, pendingAnalyze,
                         lastAnalyzedText, shown, targetElement, reanalysis,
                         appliedChanges, lastApply>>

\* the oldest Accept timer fires: acceptSuggestion(sentence.issues[idx],
\* original, replacement).  Without a current sentence it throws after the
\* push.
AcceptTimerFires ==
  /\ acceptTimers # <<>>
  /\ acceptTimers' = Tail(acceptTimers)
  /\ LET timer   == Head(acceptTimers)
         changes == Append(pendingChanges, timer.change)
     IN  IF currentSentenceIndex >= Len(currentSentences)
         THEN /\ pendingChanges' = changes
              /\ UNCHANGED <<currentSentences, currentSentenceIndex,
                             modalOpen, elementText, focused, pendingAnalyze,
                             lastAnalyzedText, shown, targetElement,
                             reanalysis, rendered, appliedChanges, lastApply>>
         ELSE ReviewStep(
                removeIssue(
                  [currentSentences EXCEPT ![currentSentenceIndex + 1].text =
                     replaceWord(@, timer.change.original,
                                 timer.change.replacement)],
                  currentSentenceIndex, placeOf(timer.id, timer.idx)),
                changes)
  /\ UNCHANGED <<acceptedChanges, clicks>>
  /\ UNCHANGED <<script, aiReady, analysisVersion, inFlight,
                 currentSuggestions, validatedHomophones, published,
                 completions>>
  /\ UNCHANGED <<textVars, flowVars, wordVars, aiVars, dbVars, csvVars, popVars, fzVars>>

\* a click on the Ignore button of issue idx of the rendered sentence:
\* ignoreSuggestion(sentence.issues[idx]); it throws without a current
\* sentence
IgnoreClick(idx) ==
  /\ modalOpen
  /\ clicks < MaxClicks
  /\ rendered # <<>>
  /\ idx \in 1..Len(rendered[1].issues)
  /\ IF "category" \in DOMAIN rendered[1].issues[idx]
     THEN rendered[1].issues[idx].category \notin {"blue", "yellow"}
     ELSE TRUE
  /\ clicks' = clicks + 1
  /\ IF currentSentenceIndex >= Len(currentSentences)
     THEN UNCHANGED <<currentSentences, currentSentenceIndex, pendingChanges,
                      modalOpen, elementText, focused, pendingAnalyze,
                      lastAnalyzedText, shown, targetElement, reanalysis,
                      rendered, appliedChanges, lastApply>>
     ELSE ReviewStep(removeIssue(currentSentences, currentSentenceIndex,
                                 placeOf(rendered[1].id, idx)),
                     pendingChanges)
  /\ UNCHANGED <<acceptTimers, acceptedChanges>>
  /\ UNCHANGED <<script, aiReady, analysisVersion, inFlight,
                 currentSuggestions, validatedHomophones, published,
                 completions>>
  /\ UNCHANGED <<textVars, flowVars, wordVars, aiVars, dbVars, csvVars, popVars, fzVars>>

\* a click on Done, on the close button or on the backdrop
CloseReviewModal ==
  /\ modalOpen
  /\ closeReviewModal(pendingChanges, FALSE)
  /\ UNCHANGED <<acceptTimers, rendered, acceptedChanges, clicks>>
  /\ UNCHANGED <<script, aiReady, analysisVersion, inFlight,
                 currentSuggestions, currentSentences, currentSentenceIndex,
                 validatedHomophones, published, completions>>
  /\ UNCHANGED <<textVars, flowVars, wordVars, aiVars, dbVars, csvVars, popVars, fzVars>>

\* the 100 ms timer of applyAllChanges fires:
\* debouncedAnalyze(currentText, element)
ReanalysisFires ==
  /\ reanalysis # <<>>
  /\ reanalysis' = <<>>
  /\ pendingAnalyze' = <<reanalysis[1]>>
  /\ UNCHANGED <<pendingChanges, targetElement, acceptTimers, rendered,
                 acceptedChanges, appliedChanges, lastApply, clicks>>
  /\ UNCHANGED <<script, aiReady, focused, elementText, analysisVersion,
                 lastAnalyzedText, inFlight, currentSuggestions, shown,
                 currentSentences, currentSentenceIndex, modalOpen,
                 validatedHomophones, published, completions>>
  /\ UNCHANGED <<textVars, flowVars, wordVars, aiVars, dbVars, csvVars, popVars, fzVars>>

\* the modal covers the page: the user types in the field and gives it the
\* focus only while the modal is closed.  No AI backend is ready, so every
\* analysis completes in the step of the debounce timer.
NextReview ==
  \/ OpenReviewModal
  \/ \E direction \in {-1, 1} : NavigateSentence(direction)
  \/ \E idx \in 1..2 : AcceptClick(idx)
  \/ AcceptTimerFires
  \/ \E idx \in 1..2 : IgnoreClick(idx)
  \/ CloseReviewModal
  \/ ReanalysisFires
  \/ ~modalOpen /\ HandleFocusIn
  \/ HandleFocusOut
  \/ \E t \in ReviewTexts : ~modalOpen /\ HandleInput(t)
  \/ DebounceFires

SpecReview == InitReview /\ [][NextReview]_vars

\* C22 - accepted suggestions are applied exactly once: whenever the modal
\* is closed, the changes applyAllChanges has applied to the field are the
\* suggestions the user clicked Accept on, each once and in order, whatever
\* the clicks and the 300 ms timers did in between.
C22_AcceptedAppliedOnce ==
  script = "statusBar" /\ ~modalOpen => appliedChanges = acceptedChanges

\* C23 - review index bounds: with sentences to review, currentSentenceIndex
\* is the index of one of them.
C23_IndexInBounds ==
  currentSentences # <<>> =>
    0 <= currentSentenceIndex /\ currentSentenceIndex < Len(currentSentences)

\* t with each of the spans flagged for the changes replaced, the rightmost
\* first
RECURSIVE ReplaceSpans(_, _)
ReplaceSpans(t, spans) ==
  IF spans = {} THEN t
  ELSE LET c == CHOOSE x \in spans :
                  \A y \in spans : y.where.start <= x.where.start
       IN  ReplaceSpans(SubSeq(t, 1, c.where.start) \o c.replacement
                          \o SubSeq(t, c.where.end + 1, Len(t)),
                        spans \ {c})

\* a run of applyAllChanges on the text the changes were flagged in
AppliedToAnalysedText ==
  /\ lastApply # <<>>
  /\ lastApply[1].analysed # <<>>
  /\ lastApply[1].analysed[1].text = lastApply[1].textBefore
  /\ \A k \in 1..Len(lastApply[1].changes) :
       lastApply[1].changes[k].gen = lastApply[1].analysed[1].version

\* C26 - applyAllChanges replaces the flagged occurrence: the text it writes
\* is the text it read with the span of each accepted issue replaced by its
\* replacement and every other character as it was.
C26_FlaggedOccurrenceReplaced ==
  AppliedToAnalysedText =>
    lastApply[1].textAfter =
      ReplaceSpans(lastApply[1].textBefore, Range(lastApply[1].changes))

\* C24 - no highlight after the focus has left: once handleFocusOut has
\* cleared the highlights and forgotten the element, the highlights script
\* renders none until the field is focused again, also when an analysis was
\* in flight as the focus left (in this model the field takes input only
\* while it has the focus, so "until the next focus, input or paste" is
\* "while it has no focus").
C24_NoHighlightAfterFocusOut ==
  script = "highlights" /\ ~focused => shown = <<>>

---------------------------------------------------------------------------
\* The options popup (src/unnamed/part_000) and the storage utility
\* (src/utils/storage.ts): settings are the popup's React state, every
\* change is written through updateSettings, a read-modify-write of
\* browser.storage.local.

\* the calls of updateSettings in one run
MaxUpdates == 4

\* BROWSER_MODELS: the ids the select offers
BrowserModels == {"SmolLM2-135M-Instruct-q4f16_1-MLC", "Qwen2.5-0.5B-Instruct-q4f16_1-MLC", "Qwen2.5-1.5B-Instruct-q4f16_1-MLC"}

\* updateSettings: { ...current, ...partial }; a field of partial is <<v>>
\* when present and <<>> when absent
mergeSettings(current, partial) ==
  [ai                |-> IF partial.ai # <<>> THEN partial.ai[1]
                         ELSE current.ai,
   correctionEnabled |-> IF partial.correctionEnabled # <<>>
                         THEN partial.correctionEnabled[1]
                         ELSE current.correctionEnabled]

\* handleAIChange(key, value) in a handler rendered with settings:
\* updatedAI = { ...settings.ai, [key]: value }
updatedAI(settings, key, value) == [settings.ai EXCEPT ![key] = value]

\* a call updateSettings(partial) at its first await, loadSettings()
UpdateCall(n, partial) ==
  [id |-> n, partial |-> partial, pc |-> "load", current |-> <<>>]

\* the popup after its first effect: loadSettings().then(setSettings)
InitPopup ==
  /\ \E id \in BrowserModels, d \in BOOLEAN, e \in BOOLEAN :
       popupSettings = [ai |-> [browserModelId |-> id, modelDownloaded |-> d],
                        correctionEnabled |-> e]
  /\ storedSettings = popupSettings
  /\ updateCalls = {}
  /\ issued = 0
  /\ lastSelect = "none"
  /\ TextIdle /\ FlowIdle /\ WordIdle /\ AiIdle /\ CsIdle /\ DbIdle /\ CsvIdle /\ RvIdle /\ FzIdle

\* onChange of the model select: handleAIChange('browserModelId', id) and
\* handleAIChange('modelDownloaded', false), both of the render on display
\* and so both with its settings, each up to its await of updateSettings;
\* of the two setSettings the second is the state of the next render
SelectModel(id) ==
  /\ issued + 2 <= MaxUpdates
  /\ id # popupSettings.ai.browserModelId
  /\ LET first  == updatedAI(popupSettings, "browserModelId", id)
         second == updatedAI(popupSettings, "modelDownloaded", FALSE)
     IN  /\ popupSettings' = [popupSettings EXCEPT !.ai = second]
         /\ updateCalls' = updateCalls \cup
              {UpdateCall(issued + 1, [ai |-> <<first>>,
                                       correctionEnabled |-> <<>>]),
               UpdateCall(issued + 2, [ai |-> <<second>>,
                                       correctionEnabled |-> <<>>])}
  /\ issued' = issued + 2
  /\ lastSelect' = id
  /\ UNCHANGED storedSettings
  /\ UNCHANGED <<textVars, flowVars, wordVars, aiVars, csVars, dbVars, csvVars, rvVars, fzVars>>

\* handleSettingChange('correctionEnabled', value) up to its await
HandleSettingChange(value) ==
  /\ issued + 1 <= MaxUpdates
  /\ value # popupSettings.correctionEnabled
  /\ popupSettings' = [popupSettings EXCEPT !.correctionEnabled = value]
  /\ updateCalls' = updateCalls \cup
       {UpdateCall(issued + 1, [ai |-> <<>>, correctionEnabled |-> <<value>>])}
  /\ issued' = issued + 1
  /\ UNCHANGED <<storedSettings, lastSelect>>
  /\ UNCHANGED <<textVars, flowVars, wordVars, aiVars, csVars, dbVars, csvVars, rvVars, fzVars>>

\* updateSettings: loadSettings() resolves with what the storage holds
LoadSettings ==
  /\ \E c \in updateCalls :
       /\ c.pc = "load"
       /\ updateCalls' = (updateCalls \ {c}) \cup
            {[c EXCEPT !.pc = "save", !.current = <<storedSettings>>]}
  /\ UNCHANGED <<popupSettings, storedSettings, issued, lastSelect>>
  /\ UNCHANGED <<textVars, flowVars, wordVars, aiVars, csVars, dbVars, csvVars, rvVars, fzVars>>

\* updateSettings: saveSettings(updated) writes the storage; the call
\* returns, and the broadcast that ends the handler changes neither the
\* popup nor the storage
SaveSettings ==
  /\ \E c \in updateCalls :
       /\ c.pc = "save"
       /\ storedSettings' = mergeSettings(c.current[1], c.partial)
       /\ updateCalls' = updateCalls \ {c}
  /\ UNCHANGED <<popupSettings, issued, lastSelect>>
  /\ UNCHANGED <<textVars, flowVars, wordVars, aiVars, csVars, dbVars, csvVars, rvVars, fzVars>>

NextPopup ==
  \/ \E id \in BrowserModels : SelectModel(id)
  \/ \E value \in BOOLEAN : HandleSettingChange(value)
  \/ LoadSettings
  \/ SaveSettings

SpecPopup == InitPopup /\ [][NextPopup]_vars

\* C25 - no lost settings update: once the two updates the model select
\* issues (browserModelId = id, modelDownloaded = false) and every other
\* update have completed, the storage and the popup's state both hold
\* ai.browserModelId = id and ai.modelDownloaded = false.
C25_NoLostSettingsUpdate ==
  lastSelect # "none" /\ updateCalls = {} =>
    /\ storedSettings.ai.browserModelId = lastSelect
    /\ ~storedSettings.ai.modelDownloaded
    /\ popupSettings.ai.browserModelId = lastSelect
    /\ ~popupSettings.ai.modelDownloaded

---------------------------------------------------------------------------
\* findWordPositionFuzzy (src/entrypoints/popup/App.tsx): where
\* renderHighlights puts the highlight of a suggestion, given the position
\* the analysis reported as a hint.

\* const windowSize = 50
windowSize == 50

\* n characters that are no word characters
Filler(n) == [i \in 1..n |-> "."]

\* { start, end }
WordPosition(start, len) == [start |-> start, end |-> start + len]

\* step 1: the word at the hint, between word boundaries
AtHint(s, w, h) ==
  /\ h >= 0
  /\ h + Len(w) <= Len(s)
  /\ substring(toLowerCase(s), h, h + Len(w)) = toLowerCase(w)
  /\ (h = 0 \/ ~IsWordChar(s[h]))
  /\ (h + Len(w) >= Len(s) \/ ~IsWordChar(s[h + Len(w) + 1]))

\* step 2: the offsets in text of the matches of the regular expression in
\* searchArea = text.substring(searchStart, searchEnd)
WindowMatches(s, w, h) ==
  LET searchStart == Max(0, h - windowSize)
      searchEnd   == Min(Len(s), h + Len(w) + windowSize)
      searchArea  == substring(s, searchStart, searchEnd)
  IN  {searchStart + index :
         index \in {p \in 0..Len(searchArea) : WordMatchesAt(searchArea, w, p)}}

Distance(a, b) == IF a >= b THEN a - b ELSE b - a

\* matches.sort((a, b) => a.distance - b.distance)[0]: the sort is stable,
\* the matches are in the order of their offsets
ClosestMatch(matches, h) ==
  CHOOSE m \in matches :
    \A q \in matches :
      \/ Distance(m, h) < Distance(q, h)
      \/ Distance(m, h) = Distance(q, h) /\ m <= q

\* findWordPositionFuzzy(text, word, hintStart): <<position>>, or <<>> for
\* null
findWordPositionFuzzy(s, w, h) ==
  IF AtHint(s, w, h) THEN <<WordPosition(h, Len(w))>>
  ELSE IF WindowMatches(s, w, h) # {}
  THEN <<WordPosition(ClosestMatch(WindowMatches(s, w, h), h), Len(w))>>
  ELSE IF regexIndex(s, w) >= 0 THEN <<WordPosition(regexIndex(s, w), Len(w))>>
  ELSE <<>>

Str_cat == <<"c", "a", "t">>

\* the texts searched: a short one with the word alone and inside others,
\* one without the word, and three longer than the window, with the word
\* inside another word at the start, inside another word at the end, and
\* alone at the start
\*   Cat concat cat      dog      concat....(50)
\*   ....(53)catalog     cat....(60)
FuzzyTexts ==
  { <<"C", "a", "t", " ", "c", "o", "n", "c", "a", "t", " ", "c", "a", "t">>,
    <<"d", "o", "g">>,
    <<"c", "o", "n">> \o Str_cat \o Filler(50),
    Filler(53) \o Str_cat \o <<"a", "l", "o", "g">>,
    Str_cat \o Filler(60) }

FuzzyWords == {Str_cat, <<"C", "A", "T">>}

InitFuzzy ==
  /\ fuzzyText \in FuzzyTexts
  /\ fuzzyWord \in FuzzyWords
  /\ hintStart \in -1..(Len(fuzzyText) + 1)
  /\ fuzzyCalls = 0
  /\ fuzzyResult = <<>>
  /\ fuzzyAgain = <<>>
  /\ TextIdle /\ FlowIdle /\ WordIdle /\ AiIdle /\ CsIdle /\ DbIdle /\ CsvIdle /\ RvIdle /\ PopIdle

\* pos = findWordPositionFuzzy(text, suggestion.original,
\*                             suggestion.position.start)
CallFuzzy ==
  /\ fuzzyCalls = 0
  /\ fuzzyCalls' = 1
  /\ fuzzyResult' = findWordPositionFuzzy(fuzzyText, fuzzyWord, hintStart)
  /\ UNCHANGED <<fuzzyText, fuzzyWord, hintStart, fuzzyAgain>>
  /\ UNCHANGED <<textVars, flowVars, wordVars, aiVars, csVars, dbVars, csvVars, rvVars, popVars>>

\* the next rendering: the hint is the start the first call returned
CallFuzzyAgain ==
  /\ fuzzyCalls = 1
  /\ fuzzyResult # <<>>
  /\ fuzzyCalls' = 2
  /\ fuzzyAgain' = findWordPositionFuzzy(fuzzyText, fuzzyWord,
                                         fuzzyResult[1].start)
  /\ UNCHANGED <<fuzzyText, fuzzyWord, hintStart, fuzzyResult>>
  /\ UNCHANGED <<textVars, flowVars, wordVars, aiVars, csVars, dbVars, csvVars, rvVars, popVars>>

NextFuzzy ==
  \/ CallFuzzy
  \/ CallFuzzyAgain

SpecFuzzy == InitFuzzy /\ [][NextFuzzy]_vars

\* word at offset p of text, in any casing, with a non-word character or
\* the end of the text on either side
IsOccurrence(s, w, p) ==
  /\ p >= 0
  /\ p + Len(w) <= Len(s)
  /\ toLowerCase(SubSeq(s, p + 1, p + Len(w))) = toLowerCase(w)
  /\ (p = 0 \/ ~IsWordChar(s[p]))
  /\ (p + Len(w) = Len(s) \/ ~IsWordChar(s[p + Len(w) + 1]))

Occurrences(s, w) == {p \in 0..Len(s) : IsOccurrence(s, w, p)}

\* the occurrences that lie in the window of 50 characters around the hint
WindowOccurrences(s, w, h) ==
  {p \in Occurrences(s, w) :
     p >= h - windowSize /\ p + Len(w) <= h + Len(w) + windowSize}

\* C27 - findWordPositionFuzzy returns null only when the word has no
\* whole-word occurrence in the text; a span it returns is a whole-word,
\* case-insensitive occurrence: the hint itself when the word is there,
\* else the occurrence nearest the hint within the window, else the first
\* occurrence of the text; and the call with the returned start as hint
\* returns the same span.
C27_FuzzyPosition ==
  fuzzyCalls >= 1 =>
    LET occ == Occurrences(fuzzyText, fuzzyWord)
        win == WindowOccurrences(fuzzyText, fuzzyWord, hintStart)
    IN  /\ fuzzyResult = <<>> => occ = {}
        /\ fuzzyResult # <<>> =>
             /\ fuzzyResult[1].start \in occ
             /\ fuzzyResult[1].end = fuzzyResult[1].start + Len(fuzzyWord)
             /\ hintStart \in occ => fuzzyResult[1].start = hintStart
             /\ hintStart \notin occ /\ win # {} =>
                  /\ fuzzyResult[1].start \in win
                  /\ \A q \in win :
                       Distance(fuzzyResult[1].start, hintStart)
                         <= Distance(q, hintStart)
             /\ hintStart \notin occ /\ win = {} =>
                  \A q \in occ : fuzzyResult[1].start <= q
        /\ fuzzyCalls = 2 => fuzzyAgain = fuzzyResult

=============================================================================
